---------------------------- MODULE Spec2Model ----------------------------
(***************************************************************************)
(* A model of hlskit-rs: the multi-profile HLS transcode orchestration     *)
(* (process_video_internal), the FFmpeg command builder, the process       *)
(* runner, the output reader and the master playlist generator.            *)
(*                                                                         *)
(* Strings are modelled as sequences of tokens (a token is a TLA+ string): *)
(* format!("playlist_{}.m3u8", 3) is <<"playlist_", "3", ".m3u8">>.  Two   *)
(* strings are equal when their token sequences are equal; every string    *)
(* the program builds is built by the operators below, so the tokenisation *)
(* of equal strings is the same.                                           *)
(***************************************************************************)
EXTENDS Integers, Sequences, FiniteSets, TLC

(***************************************************************************)
(* Bounds of the model.                                                    *)
(***************************************************************************)
\* the largest number of output profiles of one run
MaxProfiles == 2
\* the largest segment sequence number an encoder writes
MaxSeg == 3
\* the largest number of violations the setters of BuilderSpec record
MaxViolations == 2

(***************************************************************************)
(* Option<T>: None is the empty sequence, Some(v) the one-element one.     *)
(***************************************************************************)
None == <<>>
Some(v) == <<v>>
IsSome(o) == Len(o) = 1
IsNone(o) == Len(o) = 0
Unwrap(o) == o[1]

(***************************************************************************)
(* Result<T, E>.                                                           *)
(***************************************************************************)
Ok(v) == [ok |-> TRUE, val |-> v, err |-> <<>>]
Err(e) == [ok |-> FALSE, val |-> <<>>, err |-> e]

(***************************************************************************)
(* String helpers.                                                         *)
(***************************************************************************)
Str(s) == <<s>>

\* format!("{:03}", n): the decimal digits of n, zero-padded to width 3
Pad3(n) ==
    IF n < 0 THEN ToString(n)
    ELSE IF n < 10 THEN "00" \o ToString(n)
    ELSE IF n < 100 THEN "0" \o ToString(n)
    ELSE ToString(n)

\* str::replace(from, to) on a token sequence
RECURSIVE Replace(_, _, _)
Replace(s, from, to) ==
    IF s = <<>> THEN <<>>
    ELSE <<(IF Head(s) = from THEN to ELSE Head(s))>> \o Replace(Tail(s), from, to)

\* [String]::join(sep)
RECURSIVE Join(_, _)
Join(strs, sep) ==
    IF strs = <<>> THEN <<>>
    ELSE IF Len(strs) = 1 THEN Head(strs)
    ELSE Head(strs) \o <<sep>> \o Join(Tail(strs), sep)

\* the tokens that begin with '%'
PercentTokens == {"%03d", "%d", "%"}

\* str::contains('%')
ContainsPercent(s) == \E k \in 1..Len(s) : s[k] \in PercentTokens

\* the tokens that are a dot followed by an extension, and the extension
ExtensionOf ==
    [t \in {".m3u8", ".ts", ".mp4", ".MP4", ".mkv", ".avi", ".Avi", ".mov", ".txt"} |->
        CASE t = ".m3u8" -> "m3u8"
          [] t = ".ts" -> "ts"
          [] t = ".mp4" -> "mp4"
          [] t = ".MP4" -> "MP4"
          [] t = ".mkv" -> "mkv"
          [] t = ".avi" -> "avi"
          [] t = ".Avi" -> "Avi"
          [] t = ".mov" -> "mov"
          [] t = ".txt" -> "txt"]

\* Path::extension(): the part of the file name after its last '.'
extension(path) ==
    IF Len(path) >= 2 /\ path[Len(path)] \in DOMAIN ExtensionOf
    THEN Some(ExtensionOf[path[Len(path)]])
    ELSE None


(***************************************************************************)
(* tools/ffmpeg_command_builder.rs                                         *)
(***************************************************************************)
\* FfmpegCommandBuilderError values and their Display text
BuilderError(variant, msg) == [variant |-> variant, msg |-> msg]

to_string(e) ==
    CASE e.variant = "ConfigurationError" ->
            <<"Configuration Validation Error: ">> \o e.msg
      [] e.variant = "BuildError" -> <<"Command Build Error: ">> \o e.msg
      [] e.variant = "FfmpegSettingError" ->
            <<"FFmpeg specific setting error: ">> \o e.msg
      [] OTHER -> e.msg

\* HlsOutputConfig
HlsOutputConfig(pattern, hls_time, playlist_type, base_url, encryption_config) ==
    [segment_filename_pattern |-> pattern,
     hls_time |-> hls_time,
     playlist_type |-> playlist_type,
     base_url |-> base_url,
     encryption_config |-> encryption_config]

\* HlsOutputEncryptionConfig
HlsOutputEncryptionConfig(key_path, iv) ==
    [encryption_key_path |-> key_path, iv |-> iv]

\* FfmpegCommand::default()
FfmpegCommandDefault ==
    [input_path |-> <<>>, output_path |-> <<>>, width |-> 0, height |-> 0,
     crf |-> 0, preset |-> <<>>, hls_config |-> None]

\* to_args with the bug of leaving out the base URL of the HLS configuration
to_args_without_base_url(c) ==
    LET base ==
            << Str("ffmpeg"), Str("-i"), c.input_path,
               Str("-vf"), <<"scale=", ToString(c.width), "x", ToString(c.height)>>,
               Str("-c:v"), Str("libx264"),
               Str("-crf"), Str(ToString(c.crf)),
               Str("-preset"), c.preset >>
        hls ==
            IF IsSome(c.hls_config)
            THEN LET h == Unwrap(c.hls_config)
                     enc ==
                        IF IsSome(h.encryption_config)
                        THEN LET e == Unwrap(h.encryption_config)
                             IN  << Str("-hls_key_info_file"), e.encryption_key_path >>
                                 \o (IF IsSome(e.iv)
                                     THEN << Str("-hls_iv"), Unwrap(e.iv) >>
                                     ELSE <<>>)
                        ELSE <<>>
                 IN  << Str("-hls_time"), Str(ToString(h.hls_time)),
                        Str("-hls_playlist_type"),
                        (IF IsSome(h.playlist_type) THEN Unwrap(h.playlist_type)
                                                    ELSE Str("vod")),
                        Str("-hls_segment_filename"), h.segment_filename_pattern >>
                     \o enc
            ELSE <<>>
    IN  base \o hls \o << c.output_path >>

\* FfmpegCommand::to_args
to_args(c) ==
    LET base ==
            << Str("ffmpeg"), Str("-i"), c.input_path,
               Str("-vf"), <<"scale=", ToString(c.width), "x", ToString(c.height)>>,
               Str("-c:v"), Str("libx264"),
               Str("-crf"), Str(ToString(c.crf)),
               Str("-preset"), c.preset >>
        hls ==
            IF IsSome(c.hls_config)
            THEN LET h == Unwrap(c.hls_config)
                     enc ==
                        IF IsSome(h.encryption_config)
                        THEN LET e == Unwrap(h.encryption_config)
                             IN  << Str("-hls_key_info_file"), e.encryption_key_path >>
                                 \o (IF IsSome(e.iv)
                                     THEN << Str("-hls_iv"), Unwrap(e.iv) >>
                                     ELSE <<>>)
                        ELSE <<>>
                 IN  << Str("-hls_time"), Str(ToString(h.hls_time)),
                        Str("-hls_playlist_type"),
                        (IF IsSome(h.playlist_type) THEN Unwrap(h.playlist_type)
                                                    ELSE Str("vod")),
                        Str("-hls_segment_filename"), h.segment_filename_pattern >>
                     \o (IF IsSome(h.base_url)
                         THEN << Str("-hls_base_url"), Unwrap(h.base_url) >>
                         ELSE <<>>)
                     \o enc
            ELSE <<>>
    IN  base \o hls \o << c.output_path >>

\* FfmpegCommandBuilder::new()
new ==
    [command |-> FfmpegCommandDefault,
     build_errors |-> <<>>,
     has_input |-> FALSE, has_output |-> FALSE, has_dimensions |-> FALSE,
     has_crf |-> FALSE, has_preset |-> FALSE]

\* FfmpegCommandBuilder::input
input(b, path) ==
    [b EXCEPT !.command.input_path = path, !.has_input = TRUE]

\* FfmpegCommandBuilder::output
output(b, path) ==
    [b EXCEPT !.command.output_path = path, !.has_output = TRUE]

\* dimensions with the bug of not recording a violation
dimensions_unrecorded(b, width, height) ==
    [b EXCEPT
        !.command.width = width,
        !.command.height = height,
        !.has_dimensions = TRUE]

\* FfmpegCommandBuilder::dimensions
dimensions(b, width, height) ==
    [b EXCEPT
        !.build_errors =
            IF width <= 0 \/ height <= 0
            THEN Append(@, BuilderError("FfmpegSettingError",
                            <<"Width and height must be positive values.">>))
            ELSE @,
        !.command.width = width,
        !.command.height = height,
        !.has_dimensions = TRUE]

\* CrfInRange with the bug of an upper limit that is off by one
CrfInRangeUpTo52(value) == value >= 0 /\ value <= 52

\* the range check of FfmpegCommandBuilder::crf
CrfInRange(value) == value >= 0 /\ value <= 51

\* crf with the bug of a valid value clearing the violations of earlier calls
crf_clearing(b, value) ==
    [b EXCEPT
        !.build_errors =
            IF ~CrfInRange(value)
            THEN Append(@, BuilderError("FfmpegSettingError",
                            <<"CRF value ", ToString(value),
                              " is outside the standard range [0-51].">>))
            ELSE SelectSeq(@, LAMBDA e : e.msg[1] /= "CRF value "),
        !.command.crf = value,
        !.has_crf = TRUE]

\* FfmpegCommandBuilder::crf
crf(b, value) ==
    [b EXCEPT
        !.build_errors =
            IF ~CrfInRange(value)
            THEN Append(@, BuilderError("FfmpegSettingError",
                            <<"CRF value ", ToString(value),
                              " is outside the standard range [0-51].">>))
            ELSE @,
        !.command.crf = value,
        !.has_crf = TRUE]

\* the preset names FfmpegCommandBuilder::preset accepts
valid_presets ==
    {"ultrafast", "superfast", "fast", "medium", "slow", "slower", "veryslow", "none"}

\* preset with the bug of accepting every name
preset_accepting_all(b, name) ==
    [b EXCEPT !.command.preset = name, !.has_preset = TRUE]

\* FfmpegCommandBuilder::preset (name is a one-token string)
preset(b, name) ==
    [b EXCEPT
        !.build_errors =
            IF ~(Len(name) = 1 /\ name[1] \in valid_presets)
            THEN Append(@, BuilderError("FfmpegSettingError",
                            <<"Preset '">> \o name
                                \o <<"' is not a recognized FFmpeg preset.">>))
            ELSE @,
        !.command.preset = name,
        !.has_preset = TRUE]

\* enable_hls with the bug of not checking the segment duration
enable_hls_unchecked_duration(b, pattern, playlist_type, base_url, encryption_settings, duration) ==
    LET e1 ==
            IF pattern = <<>> \/ ~ContainsPercent(pattern)
            THEN << BuilderError("FfmpegSettingError",
                      <<"HLS segment filename pattern must not be empty and should contain a format specifier (e.g., %03d).">>) >>
            ELSE <<>>
    IN  [b EXCEPT
            !.build_errors = @ \o e1,
            !.command.hls_config =
                Some(HlsOutputConfig(pattern, duration, playlist_type, base_url,
                                     encryption_settings))]

\* FfmpegCommandBuilder::enable_hls
enable_hls(b, pattern, playlist_type, base_url, encryption_settings, duration) ==
    LET e1 ==
            IF pattern = <<>> \/ ~ContainsPercent(pattern)
            THEN << BuilderError("FfmpegSettingError",
                      <<"HLS segment filename pattern must not be empty and should contain a format specifier (e.g., %03d).">>) >>
            ELSE <<>>
        e2 ==
            IF duration <= 0
            THEN << BuilderError("FfmpegSettingError",
                      <<"HLS segment duration must be positive.">>) >>
            ELSE <<>>
    IN  [b EXCEPT
            !.build_errors = @ \o e1 \o e2,
            !.command.hls_config =
                Some(HlsOutputConfig(pattern, duration, playlist_type, base_url,
                                     encryption_settings))]

\* MissingField with the bug of not checking the preset
MissingFieldButPreset(b) ==
    IF ~b.has_input \/ b.command.input_path = <<>>
    THEN Some(<<"Input path must be set using .input().">>)
    ELSE IF ~b.has_output \/ b.command.output_path = <<>>
    THEN Some(<<"Output path must be set using .output().">>)
    ELSE IF ~b.has_dimensions
    THEN Some(<<"Output dimensions (width and height) must be set using .dimensions().">>)
    ELSE IF ~b.has_crf
    THEN Some(<<"CRF (quality) must be set using .crf().">>)
    ELSE None

\* the first required field FfmpegCommandBuilder::build finds missing
MissingField(b) ==
    IF ~b.has_input \/ b.command.input_path = <<>>
    THEN Some(<<"Input path must be set using .input().">>)
    ELSE IF ~b.has_output \/ b.command.output_path = <<>>
    THEN Some(<<"Output path must be set using .output().">>)
    ELSE IF ~b.has_dimensions
    THEN Some(<<"Output dimensions (width and height) must be set using .dimensions().">>)
    ELSE IF ~b.has_crf
    THEN Some(<<"CRF (quality) must be set using .crf().">>)
    ELSE IF ~b.has_preset
    THEN Some(<<"Preset must be set using .preset().">>)
    ELSE None

\* build with the bug of reporting only the first recorded violation
build_first_violation_only(b) ==
    IF b.build_errors /= <<>>
    THEN [builder |-> b,
          res |-> Err(BuilderError("BuildError",
                    <<"Command configuration failed: [">>
                    \o to_string(b.build_errors[1])
                    \o <<"]">>))]
    ELSE IF IsSome(MissingField(b))
    THEN [builder |-> b,
          res |-> Err(BuilderError("ConfigurationError", Unwrap(MissingField(b))))]
    ELSE [builder |->
            IF IsSome(b.command.hls_config) /\ IsSome(extension(b.command.output_path))
            THEN [b EXCEPT !.build_errors =
                    Append(@, BuilderError("FfmpegSettingError",
                      <<"When enabling HLS, the output path should typically be a directory, not a specific file extension.">>))]
            ELSE b,
          res |-> Ok(to_args(b.command))]

\* build with the bug of recording the output-extension violation on a failed
\* build as well
build_always_recording(b) ==
    LET noted ==
            IF IsSome(b.command.hls_config) /\ IsSome(extension(b.command.output_path))
            THEN [b EXCEPT !.build_errors =
                    Append(@, BuilderError("FfmpegSettingError",
                      <<"When enabling HLS, the output path should typically be a directory, not a specific file extension.">>))]
            ELSE b
    IN  IF b.build_errors /= <<>>
        THEN [builder |-> noted,
              res |-> Err(BuilderError("BuildError",
                        <<"Command configuration failed: [">>
                        \o Join([k \in 1..Len(b.build_errors) |-> to_string(b.build_errors[k])], "; ")
                        \o <<"]">>))]
        ELSE IF IsSome(MissingField(b))
        THEN [builder |-> noted,
              res |-> Err(BuilderError("ConfigurationError", Unwrap(MissingField(b))))]
        ELSE [builder |-> noted, res |-> Ok(to_args(b.command))]

\* FfmpegCommandBuilder::build: the builder it leaves and the result
build(b) ==
    IF b.build_errors /= <<>>
    THEN [builder |-> b,
          res |-> Err(BuilderError("BuildError",
                    <<"Command configuration failed: [">>
                    \o Join([k \in 1..Len(b.build_errors) |-> to_string(b.build_errors[k])], "; ")
                    \o <<"]">>))]
    ELSE IF IsSome(MissingField(b))
    THEN [builder |-> b,
          res |-> Err(BuilderError("ConfigurationError", Unwrap(MissingField(b))))]
    ELSE [builder |->
            IF IsSome(b.command.hls_config) /\ IsSome(extension(b.command.output_path))
            THEN [b EXCEPT !.build_errors =
                    Append(@, BuilderError("FfmpegSettingError",
                      <<"When enabling HLS, the output path should typically be a directory, not a specific file extension.">>))]
            ELSE b,
          res |-> Ok(to_args(b.command))]

(***************************************************************************)
(* tools/hlskit_error.rs: an error is its enum variant and its payload;    *)
(* HlsKitError wraps the error it was converted from.                      *)
(***************************************************************************)
VideoValidatableError(variant, msg) == [variant |-> variant, msg |-> msg]

HlsKitError(kind, inner) == [kind |-> kind, variant |-> inner.variant, msg |-> inner.msg]

(***************************************************************************)
(* The file system: a function from the paths that exist to what is there: *)
(* [is_file, data].  A directory holds the paths it is a prefix of.        *)
(***************************************************************************)
File(data) == [is_file |-> TRUE, data |-> data]
Dir == [is_file |-> FALSE, data |-> <<>>]

exists(d, path) == path \in DOMAIN d

IsPrefix(p, q) == Len(p) <= Len(q) /\ SubSeq(q, 1, Len(p)) = p

\* writing (creating or replacing) one file
WriteFile(d, path, data) ==
    [q \in DOMAIN d \cup {path} |-> IF q = path THEN File(data) ELSE d[q]]

\* creating a directory
MakeDir(d, path) ==
    [q \in DOMAIN d \cup {path} |-> IF q = path THEN Dir ELSE d[q]]

\* remove_dir_all with the bug of leaving the directory where it is
remove_dir_all_kept(d, dir) == d

\* fs::remove_dir_all, and the removal TempDir's drop performs
remove_dir_all(d, dir) ==
    [q \in {r \in DOMAIN d : ~IsPrefix(dir, r)} |-> d[q]]

\* remove_file with the bug of leaving the file where it is
remove_file_kept(d, path) == d

\* fs::remove_file, as NamedTempFile's drop performs it
remove_file(d, path) ==
    [q \in DOMAIN d \ {path} |-> d[q]]

(***************************************************************************)
(* lib.rs: VideoInputType::validate                                        *)
(***************************************************************************)
ftyp == <<102, 116, 121, 112>>
EBML == <<26, 69, 223, 163>>
RIFF == <<82, 73, 70, 70>>
AVI_ == <<65, 86, 73, 32>>

\* is_valid_magic_bytes with the bug of accepting the signature of any
\* supported container, whatever the extension
is_valid_magic_bytes_of_any(buf, ext) ==
    /\ ext \in {"mp4", "mov", "mkv", "avi"}
    /\ \/ Len(buf) >= 8 /\ SubSeq(buf, 5, 8) = ftyp
       \/ Len(buf) >= 4 /\ SubSeq(buf, 1, 4) = EBML
       \/ Len(buf) >= 12 /\ SubSeq(buf, 1, 4) = RIFF /\ SubSeq(buf, 9, 12) = AVI_

is_valid_magic_bytes(buf, ext) ==
    CASE ext \in {"mp4", "mov"} -> Len(buf) >= 8 /\ SubSeq(buf, 5, 8) = ftyp
      [] ext = "mkv" -> Len(buf) >= 4 /\ SubSeq(buf, 1, 4) = EBML
      [] ext = "avi" -> Len(buf) >= 12 /\ SubSeq(buf, 1, 4) = RIFF
                                       /\ SubSeq(buf, 9, 12) = AVI_
      [] OTHER -> FALSE

valid_video_extensions == <<"mp4", "mkv", "avi", "mov">>

\* str::to_lowercase on an extension
to_lowercase(ext) ==
    CASE ext = "MP4" -> "mp4"
      [] ext = "Avi" -> "avi"
      [] OTHER -> ext

\* the path tempfile::NamedTempFile::new() creates
TempFilePath == <<"/tmp/", ".tmpInput">>

\* the path tempfile::TempDir::new() creates
TempDirPath == <<"/tmp/", ".tmpOutput">>

InMemoryFile(data) == [type |-> "InMemoryFile", data |-> data, path |-> <<>>]
FilePath(path) == [type |-> "FilePath", data |-> <<>>, path |-> path]

VideoInputPathGuard(path, temp_file) == [path |-> path, temp_file |-> temp_file]

\* the first 16 bytes of a file
First16(data) == SubSeq(data, 1, IF Len(data) < 16 THEN Len(data) ELSE 16)

\* validate_in_memory with the bug of never writing the temporary file
validate_in_memory_unwritten(video_data, d) ==
    IF video_data = <<>>
    THEN [res |-> Err(VideoValidatableError("EmptyVideoInput", <<>>)), disk |-> d]
    ELSE IF ~\E k \in 1..Len(valid_video_extensions) :
                is_valid_magic_bytes(video_data, valid_video_extensions[k])
    THEN [res |-> Err(VideoValidatableError("InvalidFormat", <<>>)), disk |-> d]
    ELSE [res |-> Ok(VideoInputPathGuard(TempFilePath, Some(TempFilePath))),
          disk |-> d]

\* validate, the InMemoryFile arm: the result, and the file system it leaves
validate_in_memory(video_data, d) ==
    IF video_data = <<>>
    THEN [res |-> Err(VideoValidatableError("EmptyVideoInput", <<>>)), disk |-> d]
    ELSE IF ~\E k \in 1..Len(valid_video_extensions) :
                is_valid_magic_bytes(video_data, valid_video_extensions[k])
    THEN [res |-> Err(VideoValidatableError("InvalidFormat", <<>>)), disk |-> d]
    ELSE [res |-> Ok(VideoInputPathGuard(TempFilePath, Some(TempFilePath))),
          disk |-> WriteFile(d, TempFilePath, video_data)]

\* validate_file_path with the bug of not checking the path at all
validate_file_path_unchecked(path, d) ==
    [res |-> Ok(VideoInputPathGuard(path, None)), disk |-> d]

\* validate_file_path with the bug of checking the extension before the
\* existence of the path
validate_file_path_extension_first(path, d) ==
    IF path = <<>>
    THEN [res |-> Err(VideoValidatableError("EmptyVideoInput", <<>>)), disk |-> d]
    ELSE LET ext == to_lowercase(
                        IF IsSome(extension(path)) THEN Unwrap(extension(path))
                                                   ELSE "invalid")
         IN  IF ~\E k \in 1..Len(valid_video_extensions) :
                    valid_video_extensions[k] = ext
             THEN [res |-> Err(VideoValidatableError("InvalidVideoInput",
                                <<"The given video hasn't a valid extension">>)),
                   disk |-> d]
             ELSE IF ~exists(d, path)
             THEN [res |-> Err(VideoValidatableError("FileNotFound", <<>>)), disk |-> d]
             ELSE IF ~d[path].is_file
             THEN [res |-> Err(VideoValidatableError("InvalidVideoInput",
                                <<"The given video is not a file">>)), disk |-> d]
             ELSE IF ~is_valid_magic_bytes(First16(d[path].data), ext)
             THEN [res |-> Err(VideoValidatableError("InvalidFormat", <<>>)),
                   disk |-> d]
             ELSE [res |-> Ok(VideoInputPathGuard(path, None)), disk |-> d]

\* validate, the FilePath arm
validate_file_path(path, d) ==
    IF path = <<>>
    THEN [res |-> Err(VideoValidatableError("EmptyVideoInput", <<>>)), disk |-> d]
    ELSE IF ~exists(d, path)
    THEN [res |-> Err(VideoValidatableError("FileNotFound", <<>>)), disk |-> d]
    ELSE IF ~d[path].is_file
    THEN [res |-> Err(VideoValidatableError("InvalidVideoInput",
                        <<"The given video is not a file">>)), disk |-> d]
    ELSE LET ext == to_lowercase(
                        IF IsSome(extension(path)) THEN Unwrap(extension(path))
                                                   ELSE "invalid")
         IN  IF ~\E k \in 1..Len(valid_video_extensions) :
                    valid_video_extensions[k] = ext
             THEN [res |-> Err(VideoValidatableError("InvalidVideoInput",
                                <<"The given video hasn't a valid extension">>)),
                   disk |-> d]
             ELSE IF ~is_valid_magic_bytes(First16(d[path].data), ext)
             THEN [res |-> Err(VideoValidatableError("InvalidFormat", <<>>)),
                   disk |-> d]
             ELSE [res |-> Ok(VideoInputPathGuard(path, None)), disk |-> d]

\* VideoInputType::validate
validate(v, d) ==
    IF v.type = "InMemoryFile"
    THEN validate_in_memory(v.data, d)
    ELSE validate_file_path(v.path, d)

(***************************************************************************)
(* tools/segment_tools.rs                                                  *)
(***************************************************************************)
HlsVideoSegment(name, data) == [segment_name |-> name, segment_data |-> data]

HlsVideoResolution(resolution, playlist_name, playlist_data, segments) ==
    [resolution |-> resolution, playlist_name |-> playlist_name,
     playlist_data |-> playlist_data, segments |-> segments]

\* format!("playlist_{stream_index}.m3u8")
PlaylistName(stream_index) == <<"playlist_", ToString(stream_index), ".m3u8">>

\* SegmentName with the bug of numbering the segments from one
SegmentNameFromOne(stream_index, segment_index) ==
    <<"data_", ToString(stream_index), "_", Pad3(segment_index + 1), ".ts">>

\* format!("data_{stream_index}_{segment_index:03}.ts")
SegmentName(stream_index, segment_index) ==
    <<"data_", ToString(stream_index), "_", Pad3(segment_index), ".ts">>

\* ReadSegments with the bug of skipping a missing segment instead of stopping
RECURSIVE ReadSegmentsSkippingGaps(_, _, _, _)
ReadSegmentsSkippingGaps(d, segment_filename, stream_index, segment_index) ==
    LET segment_path == Replace(segment_filename, "%03d", Pad3(segment_index))
    IN  IF segment_index > MaxSeg
        THEN <<>>
        ELSE (IF exists(d, segment_path)
              THEN << HlsVideoSegment(SegmentName(stream_index, segment_index),
                                      d[segment_path].data) >>
              ELSE <<>>)
             \o ReadSegmentsSkippingGaps(d, segment_filename, stream_index,
                                         segment_index + 1)

\* the loop of read_playlist_and_segments, from segment_index on
RECURSIVE ReadSegments(_, _, _, _)
ReadSegments(d, segment_filename, stream_index, segment_index) ==
    LET segment_path == Replace(segment_filename, "%03d", Pad3(segment_index))
    IN  IF ~exists(d, segment_path)
        THEN <<>>
        ELSE << HlsVideoSegment(SegmentName(stream_index, segment_index),
                                d[segment_path].data) >>
             \o ReadSegments(d, segment_filename, stream_index, segment_index + 1)

\* read_playlist_and_segments with the bug of taking a missing playlist for
\* an empty one
read_playlist_and_segments_lenient(d, playlist_filename, segment_filename, resolution, stream_index) ==
    Ok(HlsVideoResolution(resolution, PlaylistName(stream_index),
                          IF exists(d, playlist_filename) /\ d[playlist_filename].is_file
                          THEN d[playlist_filename].data
                          ELSE <<>>,
                          ReadSegments(d, segment_filename, stream_index, 0)))

read_playlist_and_segments(d, playlist_filename, segment_filename, resolution, stream_index) ==
    IF ~(exists(d, playlist_filename) /\ d[playlist_filename].is_file)
    THEN Err(HlsKitError("IO", [variant |-> "NotFound", msg |-> playlist_filename]))
    ELSE Ok(HlsVideoResolution(resolution, PlaylistName(stream_index),
                               d[playlist_filename].data,
                               ReadSegments(d, segment_filename, stream_index, 0)))

(***************************************************************************)
(* tools/m3u8_tools.rs                                                     *)
(***************************************************************************)
\* writeln!(f, ...): the text and a line feed
Line(tokens) == tokens \o <<"\n">>

\* the bandwidth of the variant at zero-based position index
BandwidthUnit == 1500000

\* Bandwidth with the bug of ranking from zero
BandwidthFromZero(index) == index * BandwidthUnit

Bandwidth(index) == (index + 1) * BandwidthUnit

\* the lines the loop of generate_master_playlist writes from index on
RECURSIVE StreamInfLines(_, _, _)
StreamInfLines(resolutions, playlist_filenames, index) ==
    IF index >= Len(resolutions)
    THEN <<>>
    ELSE Line(<<"#EXT-X-STREAM-INF:BANDWIDTH=", ToString(Bandwidth(index)),
                ",RESOLUTION=", ToString(resolutions[index + 1][1]),
                "x", ToString(resolutions[index + 1][2])>>)
         \o Line(playlist_filenames[index + 1])
         \o StreamInfLines(resolutions, playlist_filenames, index + 1)

\* generate_master_playlist with the bug of not writing the #EXTM3U header
generate_master_playlist_no_header(d, output_dir, resolutions, playlist_filenames) ==
    IF ~exists(d, output_dir)
    THEN [res |-> Err([kind |-> "FileNotFound", variant |-> "FileNotFound",
                       msg |-> output_dir]),
          disk |-> d]
    ELSE LET master_playlist_path == output_dir \o <<"/", "master", ".m3u8">>
             text == StreamInfLines(resolutions, playlist_filenames, 0)
             written == WriteFile(d, master_playlist_path, text)
         IN  [res |-> Ok(written[master_playlist_path].data), disk |-> written]

\* generate_master_playlist with the bug of creating a working directory
\* that does not exist
generate_master_playlist_creating_dir(d, output_dir, resolutions, playlist_filenames) ==
    LET master_playlist_path == output_dir \o <<"/", "master", ".m3u8">>
        text == Line(<<"#EXTM3U">>)
                \o StreamInfLines(resolutions, playlist_filenames, 0)
        written == WriteFile(MakeDir(d, output_dir), master_playlist_path, text)
    IN  [res |-> Ok(written[master_playlist_path].data), disk |-> written]

\* generate_master_playlist: the result, and the file system it leaves
generate_master_playlist(d, output_dir, resolutions, playlist_filenames) ==
    IF ~exists(d, output_dir)
    THEN [res |-> Err([kind |-> "FileNotFound", variant |-> "FileNotFound",
                       msg |-> output_dir]),
          disk |-> d]
    ELSE LET master_playlist_path == output_dir \o <<"/", "master", ".m3u8">>
             text == Line(<<"#EXTM3U">>)
                     \o StreamInfLines(resolutions, playlist_filenames, 0)
             written == WriteFile(d, master_playlist_path, text)
         IN  [res |-> Ok(written[master_playlist_path].data), disk |-> written]

(***************************************************************************)
(* models/hls_video_processing_settings.rs                                 *)
(***************************************************************************)
\* FfmpegVideoProcessingPreset::value
PresetValue ==
    [p \in {"VerySlow", "Slower", "Slow", "Medium", "Fast", "Faster", "VeryFast",
            "SuperFast", "UltraFast"} |->
        CASE p = "VerySlow" -> "veryslow"
          [] p = "Slower" -> "slower"
          [] p = "Slow" -> "slow"
          [] p = "Medium" -> "medium"
          [] p = "Fast" -> "fast"
          [] p = "Faster" -> "faster"
          [] p = "VeryFast" -> "veryfast"
          [] p = "SuperFast" -> "superfast"
          [] p = "UltraFast" -> "ultrafast"]

HlsVideoProcessingSettings(resolution, constant_rate_factor, p) ==
    [resolution |-> resolution, constant_rate_factor |-> constant_rate_factor,
     preset |-> p]

(***************************************************************************)
(* backends/ffmpeg_backend.rs: FfmpegBackend::process_profile              *)
(***************************************************************************)
\* SegmentFilename with the bug of a pattern without the stream index
SegmentFilenameShared(output_dir, stream_index) ==
    output_dir \o <<"/", "data_", "%03d", ".ts">>

\* format!("{}/data_{}_%03d.ts", output_dir, stream_index)
SegmentFilename(output_dir, stream_index) ==
    output_dir \o <<"/", "data_", ToString(stream_index), "_", "%03d", ".ts">>

\* format!("{}/playlist_{}.m3u8", output_dir, stream_index)
PlaylistFilename(output_dir, stream_index) ==
    output_dir \o <<"/">> \o PlaylistName(stream_index)

\* the segment duration process_profile passes to enable_hls
SegmentDuration == 10

\* ProfileCommand with the bug of encrypting the first profile only
ProfileCommandEncryptingFirstOnly(input_path, profile, output_dir, stream_index, enc) ==
    LET encryption_settings ==
            IF IsSome(enc) /\ stream_index = 0
            THEN Some(HlsOutputEncryptionConfig(Unwrap(enc).encryption_key_path,
                                                Unwrap(enc).iv))
            ELSE None
        encryption_key_url ==
            IF IsSome(enc) THEN Some(Unwrap(enc).encryption_key_url) ELSE None
        b1 == input(new, input_path)
        b2 == dimensions(b1, profile.resolution[1], profile.resolution[2])
        b3 == crf(b2, profile.constant_rate_factor)
        b4 == preset(b3, Str(PresetValue[profile.preset]))
        b5 == enable_hls(b4, SegmentFilename(output_dir, stream_index), None,
                         encryption_key_url, encryption_settings, SegmentDuration)
        b6 == output(b5, PlaylistFilename(output_dir, stream_index))
    IN  build(b6).res

\* the command process_profile builds: the result of build()
ProfileCommand(input_path, profile, output_dir, stream_index, enc) ==
    LET encryption_settings ==
            IF IsSome(enc)
            THEN Some(HlsOutputEncryptionConfig(Unwrap(enc).encryption_key_path,
                                                Unwrap(enc).iv))
            ELSE None
        encryption_key_url ==
            IF IsSome(enc) THEN Some(Unwrap(enc).encryption_key_url) ELSE None
        b1 == input(new, input_path)
        b2 == dimensions(b1, profile.resolution[1], profile.resolution[2])
        b3 == crf(b2, profile.constant_rate_factor)
        b4 == preset(b3, Str(PresetValue[profile.preset]))
        b5 == enable_hls(b4, SegmentFilename(output_dir, stream_index), None,
                         encryption_key_url, encryption_settings, SegmentDuration)
        b6 == output(b5, PlaylistFilename(output_dir, stream_index))
    IN  build(b6).res

(***************************************************************************)
(* tools/gstreamer_command_builder.rs                                      *)
(***************************************************************************)
\* GStreamerCommandBuilderError values
GStreamerCommandBuilderError(variant, msg) == [variant |-> variant, msg |-> msg]

MissingInput == GStreamerCommandBuilderError("MissingInput", <<>>)

MissingOutput == GStreamerCommandBuilderError("MissingOutput", <<>>)

\* GStreamerCommand::default()
GStreamerCommandDefault ==
    [input_path |-> <<>>, output_path |-> <<>>, width |-> 0, height |-> 0,
     bitrate |-> 0, hls_config |-> None]

\* the tokens a path or a URL ends a component with
SeparatorTokens == {"/", "/tmp/", "/keys/", "/videos/", "https://keys/"}

\* Path::file_name(): what follows the last separator
file_name(path) ==
    LET seps == {k \in 1..Len(path) : path[k] \in SeparatorTokens}
        last == IF seps = {} THEN 0 ELSE CHOOSE k \in seps : \A j \in seps : j <= k
    IN  SubSeq(path, last + 1, Len(path))

\* GStreamerCommand::to_args
gst_to_args(c) ==
    LET base ==
            << Str("gst-launch-1.0"), Str("filesrc"),
               <<"location=">> \o c.input_path,
               Str("! decodebin"), Str("! videoconvert ! videoscale"),
               <<"! video/x-raw,width=", ToString(c.width), ",height=",
                 ToString(c.height)>>,
               <<"! x264enc bitrate=", ToString(c.bitrate),
                 " speed-preset=medium tune=zerolatency">>,
               Str("! mpegtsmux") >>
        sink ==
            IF IsSome(c.hls_config)
            THEN LET hls == Unwrap(c.hls_config)
                     enc ==
                        IF IsSome(hls.encryption_config)
                        THEN LET e == Unwrap(hls.encryption_config)
                                 key_filename == file_name(e.encryption_key_path)
                                 key_uri ==
                                    IF IsSome(hls.base_url)
                                    THEN LET base_url == Unwrap(hls.base_url)
                                         IN  (IF base_url /= <<>>
                                                 /\ base_url[Len(base_url)] \in SeparatorTokens
                                              THEN base_url
                                              ELSE base_url \o <<"/">>)
                                             \o key_filename
                                    ELSE key_filename
                             IN  << <<"key-file=">> \o e.encryption_key_path,
                                    <<"key-uri=">> \o key_uri >>
                                 \o (IF IsSome(e.iv)
                                     THEN << <<"iv=">> \o Unwrap(e.iv) >>
                                     ELSE <<>>)
                        ELSE <<>>
                 IN  << Str("! hlssink"),
                        <<"playlist-location=">> \o c.output_path,
                        <<"location=">> \o hls.segment_filename_pattern,
                        <<"target-duration=", ToString(hls.hls_time)>> >>
                     \o enc
            ELSE << Str("! filesink"), <<"location=">> \o c.output_path >>
    IN  base \o sink

\* GStreamerCommandBuilder::new()
gst_new ==
    [command |-> GStreamerCommandDefault,
     has_input |-> FALSE, has_output |-> FALSE, has_dimensions |-> FALSE,
     has_bitrate |-> FALSE, errors |-> <<>>]

\* GStreamerCommandBuilder::input
gst_input(b, path) ==
    [b EXCEPT !.command.input_path = path, !.has_input = TRUE]

\* GStreamerCommandBuilder::output
gst_output(b, path) ==
    [b EXCEPT !.command.output_path = path, !.has_output = TRUE]

\* GStreamerCommandBuilder::dimensions
gst_dimensions(b, width, height) ==
    [b EXCEPT
        !.errors =
            IF width <= 0 \/ height <= 0
            THEN Append(@, GStreamerCommandBuilderError("InvalidDimensions",
                             <<"Width and height must be positive.">>))
            ELSE @,
        !.command.width = width,
        !.command.height = height,
        !.has_dimensions = TRUE]

\* GStreamerCommandBuilder::bitrate
bitrate(b, kbps) ==
    [b EXCEPT
        !.errors =
            IF kbps <= 0
            THEN Append(@, GStreamerCommandBuilderError("InvalidBitrate",
                             <<"Bitrate must be a positive value.">>))
            ELSE @,
        !.command.bitrate = kbps,
        !.has_bitrate = TRUE]

\* GStreamerCommandBuilder::enable_hls
gst_enable_hls(b, segment_pattern, playlist_type, base_url, encryption_settings, hls_time) ==
    [b EXCEPT
        !.errors =
            IF ~ContainsPercent(segment_pattern)
            THEN Append(@, GStreamerCommandBuilderError("InvalidConfig",
                             <<"Segment pattern must contain a printf-style specifier (e.g., %05d).">>))
            ELSE @,
        !.command.hls_config =
            Some(HlsOutputConfig(segment_pattern, hls_time, playlist_type, base_url,
                                 encryption_settings))]

\* gst_build with the bug of leaving the reported error in the list
gst_build_keeping_errors(b) ==
    IF b.errors /= <<>>
    THEN [builder |-> b, res |-> Err(Head(b.errors))]
    ELSE IF ~b.has_input
    THEN [builder |-> b, res |-> Err(MissingInput)]
    ELSE IF ~b.has_output /\ IsNone(b.command.hls_config)
    THEN [builder |-> b, res |-> Err(MissingOutput)]
    ELSE IF ~b.has_dimensions
    THEN [builder |-> b,
          res |-> Err(GStreamerCommandBuilderError("InvalidDimensions",
                        <<"Must specify video dimensions.">>))]
    ELSE IF ~b.has_bitrate
    THEN [builder |-> b,
          res |-> Err(GStreamerCommandBuilderError("InvalidBitrate",
                        <<"Must specify video bitrate.">>))]
    ELSE [builder |-> b, res |-> Ok(gst_to_args(b.command))]

\* GStreamerCommandBuilder::build: the builder it leaves and the result; a
\* failing build takes the first recorded error out of the list
gst_build(b) ==
    IF b.errors /= <<>>
    THEN [builder |-> [b EXCEPT !.errors = Tail(@)], res |-> Err(Head(b.errors))]
    ELSE IF ~b.has_input
    THEN [builder |-> b, res |-> Err(MissingInput)]
    ELSE IF ~b.has_output /\ IsNone(b.command.hls_config)
    THEN [builder |-> b, res |-> Err(MissingOutput)]
    ELSE IF ~b.has_dimensions
    THEN [builder |-> b,
          res |-> Err(GStreamerCommandBuilderError("InvalidDimensions",
                        <<"Must specify video dimensions.">>))]
    ELSE IF ~b.has_bitrate
    THEN [builder |-> b,
          res |-> Err(GStreamerCommandBuilderError("InvalidBitrate",
                        <<"Must specify video bitrate.">>))]
    ELSE [builder |-> b, res |-> Ok(gst_to_args(b.command))]

(***************************************************************************)
(* services/hls_video_processing_service.rs                                *)
(***************************************************************************)
\* build_ffmpeg_command: the encryption settings are handed to enable_hls
\* only when both the key path and the IV are given
build_ffmpeg_command(input_path, width, height, crf_value, preset_name, segment_filename, playlist_filename, encryption_key_url, encryption_key_path, iv) ==
    LET encryption_settings ==
            IF IsSome(encryption_key_path) /\ IsSome(iv)
            THEN Some(HlsOutputEncryptionConfig(Unwrap(encryption_key_path), iv))
            ELSE None
        b1 == input(new, input_path)
        b2 == dimensions(b1, width, height)
        b3 == crf(b2, crf_value)
        b4 == preset(b3, preset_name)
        b5 == enable_hls(b4, segment_filename, None, encryption_key_url,
                         encryption_settings, 10)
        b6 == output(b5, playlist_filename)
    IN  build(b6).res

\* the arguments of process_video_profile_with_encryption
ServiceArgs(input_bytes, resolution, crf_value, preset_name, output_dir, stream_index, encryption_key_url, encryption_key_path, iv) ==
    [input_bytes |-> input_bytes, resolution |-> resolution, crf |-> crf_value,
     preset |-> preset_name, output_dir |-> output_dir,
     stream_index |-> stream_index, encryption_key_url |-> encryption_key_url,
     encryption_key_path |-> encryption_key_path, iv |-> iv]

\* the command process_video_profile_with_encryption builds for the input
\* it wrote to input_path
ServiceCommand(a, input_path) ==
    build_ffmpeg_command(input_path, a.resolution[1], a.resolution[2], a.crf,
                         a.preset,
                         SegmentFilename(a.output_dir, a.stream_index),
                         PlaylistFilename(a.output_dir, a.stream_index),
                         Some(a.encryption_key_url),
                         Some(a.encryption_key_path), a.iv)

(***************************************************************************)
(* State.                                                                  *)
(***************************************************************************)
VARIABLES
    video_input,        \* process_video_internal's input: VideoInputType
    output_profiles,    \* its output_profiles: a sequence of settings
    encryption,         \* its encryption: Option<VideoProcessorEncryptionSettings>
    ffmpeg_installed,   \* whether spawning "ffmpeg" succeeds on this machine
    pc,                 \* where process_video_internal is
    disk,               \* the file system
    input_dir_guard,    \* Option<VideoInputPathGuard>, once validate returned Ok
    task,               \* per stream index: the state of the process_profile future
    proc,               \* per stream index: the encoder subprocess
    completed,          \* the stream indices in the order their tasks finished
    spawns,             \* per stream index: how many subprocesses were spawned
    reads,              \* per stream index: how often its outputs were read
    resolution_results, \* what try_join_all returned
    master_m3u8_data,   \* what generate_master_playlist returned
    outcome,            \* Option<Result<HlsVideo, HlsKitError>>: the value returned
    builder,            \* BuilderSpec, GStreamerSpec: the command builder under test
    built,              \* BuilderSpec: Option of the result of the last build()
    violations,         \* BuilderSpec: the violations recorded so far, in the
                        \* order of the calls that caused them
    supplied,           \* BuilderSpec: the setters called so far
    service_args,       \* ServiceSpec: Option of the arguments of
                        \* process_video_profile_with_encryption
    reader_args,        \* ReaderSpec: the arguments of read_playlist_and_segments
    reader_result,      \* ReaderSpec: Option of its result
    reader_loop         \* DiscoverySpec: Option of the locals of its loop:
                        \* segment_index and resolution.segments

run_vars ==
    << video_input, output_profiles, encryption, ffmpeg_installed, pc, disk,
       input_dir_guard, task, proc, completed, spawns, reads, resolution_results,
       master_m3u8_data, outcome >>

builder_vars == << builder, built, violations, supplied, service_args >>

reader_vars == << reader_args, reader_result, reader_loop >>

vars == << run_vars, builder_vars, reader_vars >>

(***************************************************************************)
(* The inputs of a run.                                                    *)
(***************************************************************************)
Mp4Bytes == <<0, 0, 0, 24>> \o ftyp \o <<105, 115, 111, 109>>
JunkBytes == <<1, 2, 3, 4, 5, 6, 7, 8>>

VideoPath == <<"/videos/", "movie", ".mp4">>
MissingPath == <<"/videos/", "absent", ".mp4">>

\* the file system before the run
SourceDisk ==
    [q \in {VideoPath} |-> File(Mp4Bytes)]

RunInputs ==
    { InMemoryFile(<<>>), InMemoryFile(JunkBytes), InMemoryFile(Mp4Bytes),
      FilePath(<<>>), FilePath(MissingPath), FilePath(VideoPath) }

ProfileChoices ==
    { HlsVideoProcessingSettings(<<1920, 1080>>, 23, "Medium"),
      HlsVideoProcessingSettings(<<1280, 720>>, 51, "UltraFast"),
      HlsVideoProcessingSettings(<<640, 360>>, 52, "Fast"),
      HlsVideoProcessingSettings(<<640, 360>>, -1, "Slow"),
      HlsVideoProcessingSettings(<<0, 720>>, 0, "Medium"),
      HlsVideoProcessingSettings(<<854, 480>>, 28, "VeryFast") }

VideoProcessorEncryptionSettings(url, key_path, iv) ==
    [encryption_key_url |-> url, encryption_key_path |-> key_path, iv |-> iv]

EncryptionChoices ==
    { None,
      Some(VideoProcessorEncryptionSettings(<<"https://keys/", "k">>,
                                            <<"/keys/", "k", ".keyinfo">>, None)),
      Some(VideoProcessorEncryptionSettings(<<"https://keys/", "k">>,
                                            <<"/keys/", "k", ".keyinfo">>,
                                            Some(<<"0123456789abcdef">>))) }

(***************************************************************************)
(* The sources validate is checked on: files of every supported container, *)
(* with every extension, and what is neither.                              *)
(***************************************************************************)
MkvBytes == EBML \o <<1, 0, 0, 0, 0, 0, 0, 35>>
AviBytes == RIFF \o <<36, 0, 0, 0>> \o AVI_ \o <<76, 73, 83, 84>>
WavBytes == RIFF \o <<36, 0, 0, 0>> \o <<87, 65, 86, 69>> \o <<102, 109, 116, 32>>
FtypFirstBytes == ftyp \o <<0, 0, 0, 24>>
ShortBytes == <<0, 0, 0>>
LongMp4Bytes == Mp4Bytes \o <<0, 0, 2, 0, 105, 115, 111, 109, 105, 115, 111, 50>>

\* the contents of the files, by the name of the file
SourceContents ==
    [c \in {"mp4", "mkv", "avi", "wav", "junk", "ftyp0", "short", "long", "empty"} |->
        CASE c = "mp4" -> Mp4Bytes
          [] c = "mkv" -> MkvBytes
          [] c = "avi" -> AviBytes
          [] c = "wav" -> WavBytes
          [] c = "junk" -> JunkBytes
          [] c = "ftyp0" -> FtypFirstBytes
          [] c = "short" -> ShortBytes
          [] c = "long" -> LongMp4Bytes
          [] c = "empty" -> <<>>]

\* the extensions of the files (<<>>: a file name without one)
SourceExtensions ==
    { <<".mp4">>, <<".MP4">>, <<".mkv">>, <<".avi">>, <<".Avi">>, <<".mov">>,
      <<".txt">>, <<>> }

DirPath == <<"/videos/", "dir", ".mp4">>
DirTxtPath == <<"/videos/", "dir", ".txt">>
MissingTxtPath == <<"/videos/", "absent", ".txt">>

\* the file system validate is checked on: every content under every
\* extension, and two directories
ValidateDisk ==
    LET files == { <<"/videos/", c>> \o e : c \in DOMAIN SourceContents,
                                            e \in SourceExtensions }
    IN  [q \in files \cup {DirPath, DirTxtPath} |->
            IF q \in {DirPath, DirTxtPath} THEN Dir ELSE File(SourceContents[q[2]])]

ValidateInputs ==
    { InMemoryFile(SourceContents[c]) : c \in DOMAIN SourceContents }
        \cup { FilePath(q) : q \in DOMAIN ValidateDisk
                                    \cup {<<>>, MissingPath, MissingTxtPath} }

N == Len(output_profiles)
Indices == 0 .. (N - 1)

(***************************************************************************)
(* The encoder subprocess: it writes the files its command line names.     *)
(***************************************************************************)
\* the argument that follows flag in a command line
ArgAfter(command, flag) ==
    command[(CHOOSE k \in 1..Len(command) : command[k] = flag) + 1]

\* Path::parent(): the path up to its last "/"
Parent(path) ==
    LET slashes == {k \in 1..Len(path) : path[k] = "/"}
    IN  IF slashes = {} THEN <<>>
        ELSE SubSeq(path, 1, (CHOOSE k \in slashes : \A j \in slashes : j <= k) - 1)

\* what the encoder writes into a file
EncodedData(path) == <<"encoded:">> \o path

\* the files an encoder run with command leaves: the playlist (or not) and
\* the segments numbered in segs
EncoderOutput(d, command, wrote_playlist, segs) ==
    LET pattern == ArgAfter(command, Str("-hls_segment_filename"))
        playlist == command[Len(command)]
        paths == {Replace(pattern, "%03d", Pad3(k)) : k \in segs}
                    \cup (IF wrote_playlist THEN {playlist} ELSE {})
    IN  IF \A q \in paths : exists(d, Parent(q))
        THEN [q \in DOMAIN d \cup paths |->
                IF q \in paths THEN File(EncodedData(q)) ELSE d[q]]
        ELSE d

(***************************************************************************)
(* tools/command_runner.rs: run_command, in its two halves: up to the      *)
(* await of wait_with_output, and from the child's exit on.                *)
(***************************************************************************)
\* stderr is what the child has written to its standard error
NoProc == [st |-> "none", command |-> <<>>, stderr |-> <<>>]

\* Command::new(..).spawn(): Ok(the child) or the error of a failed spawn
run_command_spawn(command) ==
    IF ffmpeg_installed
    THEN Ok([st |-> "running", command |-> command, stderr |-> <<>>])
    ELSE Err([kind |-> "CommandExecutionError", variant |-> "CommandExecutionError",
              msg |-> <<"No such file or directory (os error 2)">>])

\* status_success with the bug of taking every exit for a success
status_success_any_exit(child) == child.st \in {"exit_ok", "exit_fail"}

\* whether the exit status of a child that exited is success
status_success(child) == child.st = "exit_ok"

\* run_command_exit with the bug of dropping the captured standard error
run_command_exit_without_stderr(child) ==
    IF ~status_success(child)
    THEN Err([kind |-> "CommandExecutionError", variant |-> "CommandExecutionError",
              msg |-> <<"GStreamer failed: ">>])
    ELSE Ok(<<>>)

\* after wait_with_output: the check of the exit status
run_command_exit(child) ==
    IF ~status_success(child)
    THEN Err([kind |-> "CommandExecutionError", variant |-> "CommandExecutionError",
              msg |-> <<"GStreamer failed: ">> \o child.stderr])
    ELSE Ok(<<>>)

(***************************************************************************)
(* One poll of the process_profile future of stream index i, on the scan   *)
(* state s = [task, proc, spawns, reads, completed, failure].              *)
(***************************************************************************)
NewTask == [st |-> "created", res |-> None]

\* the input_path process_video_internal hands to every task
InputPath(guard) ==
    IF IsSome(guard.temp_file) THEN Unwrap(guard.temp_file) ELSE guard.path

\* the first poll: build the command, spawn the encoder, await its exit
PollCreated(s, i) ==
    LET command == ProfileCommand(InputPath(Unwrap(input_dir_guard)), output_profiles[i + 1],
                                  TempDirPath, i, encryption)
    IN  IF ~command.ok
        THEN [s EXCEPT !.task[i] = [st |-> "failed",
                                    res |-> Some(Err(HlsKitError("FFMPEGBUILDER", command.err)))],
                       !.completed = Append(@, i),
                       !.failure = Some(HlsKitError("FFMPEGBUILDER", command.err))]
        ELSE LET child == run_command_spawn(command.val)
             IN  IF ~child.ok
                 THEN [s EXCEPT !.task[i] = [st |-> "failed", res |-> Some(Err(child.err))],
                                !.completed = Append(@, i),
                                !.failure = Some(child.err)]
                 ELSE [s EXCEPT !.task[i] = [st |-> "awaiting", res |-> None],
                                !.proc[i] = child.val,
                                !.spawns[i] = @ + 1]

\* PollAwaiting with the bug of never seeing that the child has exited
PollAwaitingNeverReady(s, i) == s

\* PollAwaiting with the bug of a time limit: a child that is still running
\* when the task is polled again fails the task
PollAwaitingTimingOut(s, i) ==
    IF s.proc[i].st = "running"
    THEN [s EXCEPT !.task[i] =
                        [st |-> "failed",
                         res |-> Some(Err([kind |-> "CommandExecutionError",
                                           variant |-> "CommandExecutionError",
                                           msg |-> <<"timed out">>]))],
                   !.completed = Append(@, i),
                   !.failure = Some([kind |-> "CommandExecutionError",
                                     variant |-> "CommandExecutionError",
                                     msg |-> <<"timed out">>])]
    ELSE LET ran == run_command_exit(s.proc[i])
         IN  IF ~ran.ok
             THEN [s EXCEPT !.task[i] = [st |-> "failed", res |-> Some(Err(ran.err))],
                            !.completed = Append(@, i),
                            !.failure = Some(ran.err)]
             ELSE LET resolution ==
                        read_playlist_and_segments(disk,
                            PlaylistFilename(TempDirPath, i),
                            SegmentFilename(TempDirPath, i),
                            output_profiles[i + 1].resolution, i)
                  IN  IF ~resolution.ok
                      THEN [s EXCEPT !.task[i] = [st |-> "failed",
                                                  res |-> Some(Err(resolution.err))],
                                     !.reads[i] = @ + 1,
                                     !.completed = Append(@, i),
                                     !.failure = Some(resolution.err)]
                      ELSE [s EXCEPT !.task[i] = [st |-> "done",
                                                  res |-> Some(Ok(resolution.val))],
                                     !.reads[i] = @ + 1,
                                     !.completed = Append(@, i)]

\* PollAwaiting with the bug of a retry: an encoder that exited with a
\* failure status is spawned again
PollAwaitingRetrying(s, i) ==
    IF s.proc[i].st = "running"
    THEN s
    ELSE LET ran == run_command_exit(s.proc[i])
         IN  IF ~ran.ok
             THEN [s EXCEPT !.proc[i] = [@ EXCEPT !.st = "running", !.stderr = <<>>],
                            !.spawns[i] = @ + 1]
             ELSE LET resolution ==
                        read_playlist_and_segments(disk,
                            PlaylistFilename(TempDirPath, i),
                            SegmentFilename(TempDirPath, i),
                            output_profiles[i + 1].resolution, i)
                  IN  IF ~resolution.ok
                      THEN [s EXCEPT !.task[i] = [st |-> "failed",
                                                  res |-> Some(Err(resolution.err))],
                                     !.reads[i] = @ + 1,
                                     !.completed = Append(@, i),
                                     !.failure = Some(resolution.err)]
                      ELSE [s EXCEPT !.task[i] = [st |-> "done",
                                                  res |-> Some(Ok(resolution.val))],
                                     !.reads[i] = @ + 1,
                                     !.completed = Append(@, i)]

\* a later poll: once the child has exited, check its status and read its outputs
PollAwaiting(s, i) ==
    IF s.proc[i].st = "running"
    THEN s
    ELSE LET ran == run_command_exit(s.proc[i])
         IN  IF ~ran.ok
             THEN [s EXCEPT !.task[i] = [st |-> "failed", res |-> Some(Err(ran.err))],
                            !.completed = Append(@, i),
                            !.failure = Some(ran.err)]
             ELSE LET resolution ==
                        read_playlist_and_segments(disk,
                            PlaylistFilename(TempDirPath, i),
                            SegmentFilename(TempDirPath, i),
                            output_profiles[i + 1].resolution, i)
                  IN  IF ~resolution.ok
                      THEN [s EXCEPT !.task[i] = [st |-> "failed",
                                                  res |-> Some(Err(resolution.err))],
                                     !.reads[i] = @ + 1,
                                     !.completed = Append(@, i),
                                     !.failure = Some(resolution.err)]
                      ELSE [s EXCEPT !.task[i] = [st |-> "done",
                                                  res |-> Some(Ok(resolution.val))],
                                     !.reads[i] = @ + 1,
                                     !.completed = Append(@, i)]

\* process_profile with the bug of a limit of one encoder at a time: a task
\* is not started while another task's encoder is running
process_profile_serialised(s, i) ==
    CASE s.task[i].st = "created" /\ (\A j \in Indices : s.proc[j].st /= "running") ->
            PollCreated(s, i)
      [] s.task[i].st = "awaiting" -> PollAwaiting(s, i)
      [] OTHER -> s

process_profile(s, i) ==
    CASE s.task[i].st = "created" -> PollCreated(s, i)
      [] s.task[i].st = "awaiting" -> PollAwaiting(s, i)
      [] OTHER -> s

(***************************************************************************)
(* futures::future::try_join_all: one poll polls the futures that are not  *)
(* finished in index order and stops at the first error; the results are   *)
(* kept in the futures' slots.                                             *)
(***************************************************************************)
\* PollFrom with the bug of polling on after a future has failed
RECURSIVE PollOnFrom(_, _)
PollOnFrom(s, i) ==
    IF i >= N
    THEN s
    ELSE PollOnFrom(process_profile(s, i), i + 1)

\* PollFrom with the bug of terminating the running encoders on a failure
RECURSIVE PollFromKillingSiblings(_, _)
PollFromKillingSiblings(s, i) ==
    IF IsSome(s.failure)
    THEN [s EXCEPT !.proc = [j \in DOMAIN s.proc |->
                                IF s.proc[j].st = "running"
                                THEN [s.proc[j] EXCEPT !.st = "exit_fail"]
                                ELSE s.proc[j]]]
    ELSE IF i >= N
    THEN s
    ELSE PollFromKillingSiblings(process_profile(s, i), i + 1)

RECURSIVE PollFrom(_, _)
PollFrom(s, i) ==
    IF i >= N \/ IsSome(s.failure)
    THEN s
    ELSE PollFrom(process_profile(s, i), i + 1)

\* JoinedResults with the bug of collecting the results in completion order
JoinedInCompletionOrder(s) ==
    [k \in 1..N |-> Unwrap(s.task[s.completed[k]].res).val]

\* the Vec try_join_all resolves to once every future is done
JoinedResults(s) == [k \in 1..N |-> Unwrap(s.task[k - 1].res).val]

(***************************************************************************)
(* lib.rs: process_video_internal                                          *)
(***************************************************************************)
HlsVideo(master, resolutions) == [master_m3u8_data |-> master, resolutions |-> resolutions]

\* DropLocals with the bug of a working directory that outlives the call
DropLocalsKeepingOutputDir(d, guard, has_output_dir) ==
    IF IsSome(guard) /\ IsSome(Unwrap(guard).temp_file)
    THEN remove_file(d, Unwrap(Unwrap(guard).temp_file))
    ELSE d

\* leaving the function drops output_dir (a TempDir, which removes its
\* directory) and the guard's temp_file (a NamedTempFile, which removes its file)
DropLocals(d, guard, has_output_dir) ==
    LET d1 == IF has_output_dir THEN remove_dir_all(d, TempDirPath) ELSE d
    IN  IF IsSome(guard) /\ IsSome(Unwrap(guard).temp_file)
        THEN remove_file(d1, Unwrap(Unwrap(guard).temp_file))
        ELSE d1

RunInit ==
    /\ video_input \in RunInputs
    /\ output_profiles \in UNION {[1..n -> ProfileChoices] : n \in 0..MaxProfiles}
    /\ encryption \in EncryptionChoices
    /\ ffmpeg_installed \in BOOLEAN
    /\ pc = "validate"
    /\ disk = SourceDisk
    /\ input_dir_guard = None
    /\ task = [i \in Indices |-> NewTask]
    /\ proc = [i \in Indices |-> NoProc]
    /\ completed = <<>>
    /\ spawns = [i \in Indices |-> 0]
    /\ reads = [i \in Indices |-> 0]
    /\ resolution_results = <<>>
    /\ master_m3u8_data = <<>>
    /\ outcome = None

BuilderIdle ==
    /\ builder = new
    /\ built = None
    /\ violations = <<>>
    /\ supplied = {}
    /\ service_args = None

ReaderIdle ==
    /\ reader_args = <<>>
    /\ reader_result = None
    /\ reader_loop = None

Init == RunInit /\ BuilderIdle /\ ReaderIdle

\* line 251: input.validate()?
Validate ==
    /\ pc = "validate"
    /\ LET v == validate(video_input, disk)
       IN  IF v.res.ok
           THEN /\ input_dir_guard' = Some(v.res.val)
                /\ disk' = v.disk
                /\ pc' = "create_output_dir"
                /\ outcome' = outcome
           ELSE /\ outcome' = Some(Err(HlsKitError("VideoValidationError", v.res.err)))
                /\ pc' = "returned"
                /\ UNCHANGED << input_dir_guard, disk >>
    /\ UNCHANGED << video_input, output_profiles, encryption, ffmpeg_installed, task,
                    proc, completed, spawns, reads, resolution_results,
                    master_m3u8_data, builder_vars, reader_vars >>

\* line 260: TempDir::new()?; lines 263-275 only create the futures
CreateOutputDir ==
    /\ pc = "create_output_dir"
    /\ disk' = MakeDir(disk, TempDirPath)
    /\ pc' = "join"
    /\ UNCHANGED << video_input, output_profiles, encryption, ffmpeg_installed,
                    input_dir_guard, task, proc, completed, spawns, reads,
                    resolution_results, master_m3u8_data, outcome, builder_vars, reader_vars >>

\* whether the try_join_all future is polled: at first, and whenever the
\* child a task awaits has exited
Woken ==
    \/ \A i \in Indices : task[i].st = "created"
    \/ \E i \in Indices : task[i].st = "awaiting" /\ proc[i].st /= "running"

\* line 277: one poll of try_join_all(tasks).await?
Poll ==
    /\ pc = "join"
    /\ Woken
    /\ LET s == PollFrom([task |-> task, proc |-> proc, spawns |-> spawns,
                          reads |-> reads, completed |-> completed,
                          failure |-> None], 0)
       IN  /\ task' = s.task
           /\ proc' = s.proc
           /\ spawns' = s.spawns
           /\ reads' = s.reads
           /\ completed' = s.completed
           /\ IF IsSome(s.failure)
              THEN /\ outcome' = Some(Err(Unwrap(s.failure)))
                   /\ pc' = "returned"
                   /\ disk' = DropLocals(disk, input_dir_guard, TRUE)
                   /\ resolution_results' = resolution_results
              ELSE IF \A i \in Indices : s.task[i].st = "done"
              THEN /\ resolution_results' = JoinedResults(s)
                   /\ pc' = "master"
                   /\ UNCHANGED << outcome, disk >>
              ELSE UNCHANGED << outcome, pc, disk, resolution_results >>
    /\ UNCHANGED << video_input, output_profiles, encryption, ffmpeg_installed,
                    input_dir_guard, master_m3u8_data, builder_vars, reader_vars >>

\* lines 279-290: generate_master_playlist(..).await?
GenerateMaster ==
    /\ pc = "master"
    /\ LET m == generate_master_playlist(disk, TempDirPath,
                    [k \in 1..Len(resolution_results) |-> resolution_results[k].resolution],
                    [k \in 1..Len(resolution_results) |-> resolution_results[k].playlist_name])
       IN  IF m.res.ok
           THEN /\ master_m3u8_data' = m.res.val
                /\ disk' = m.disk
                /\ pc' = "remove_output_dir"
                /\ outcome' = outcome
           ELSE /\ outcome' = Some(Err(m.res.err))
                /\ pc' = "returned"
                /\ disk' = DropLocals(disk, input_dir_guard, TRUE)
                /\ master_m3u8_data' = master_m3u8_data
    /\ UNCHANGED << video_input, output_profiles, encryption, ffmpeg_installed,
                    input_dir_guard, task, proc, completed, spawns, reads,
                    resolution_results, builder_vars, reader_vars >>

\* line 297: fs::remove_dir_all(output_dir_path)?
RemoveOutputDir ==
    /\ pc = "remove_output_dir"
    /\ disk' = remove_dir_all(disk, TempDirPath)
    /\ pc' = "return_ok"
    /\ UNCHANGED << video_input, output_profiles, encryption, ffmpeg_installed,
                    input_dir_guard, task, proc, completed, spawns, reads,
                    resolution_results, master_m3u8_data, outcome, builder_vars, reader_vars >>

\* line 298: Ok(hls_video)
ReturnOk ==
    /\ pc = "return_ok"
    /\ outcome' = Some(Ok(HlsVideo(master_m3u8_data, resolution_results)))
    /\ disk' = DropLocals(disk, input_dir_guard, TRUE)
    /\ pc' = "returned"
    /\ UNCHANGED << video_input, output_profiles, encryption, ffmpeg_installed,
                    input_dir_guard, task, proc, completed, spawns, reads,
                    resolution_results, master_m3u8_data, builder_vars, reader_vars >>

\* what an encoder may have done when it exits: its exit status, whether it
\* wrote its playlist, the segments it wrote, and what it wrote to its
\* standard error
EncoderRuns ==
    { [success |-> TRUE, wrote_playlist |-> TRUE, segs |-> {0, 1},
       stderr |-> <<"muxing overhead: unknown">>],
      [success |-> TRUE, wrote_playlist |-> TRUE, segs |-> {},
       stderr |-> <<"muxing overhead: unknown">>],
      [success |-> TRUE, wrote_playlist |-> FALSE, segs |-> {0},
       stderr |-> <<"muxing overhead: unknown">>],
      [success |-> FALSE, wrote_playlist |-> TRUE, segs |-> {0},
       stderr |-> <<"Conversion failed!">>],
      [success |-> FALSE, wrote_playlist |-> FALSE, segs |-> {},
       stderr |-> <<"Invalid data found when processing input">>] }

\* the encoder of stream index i exits
EncoderExit(i, run) ==
    /\ proc[i].st = "running"
    /\ proc' = [proc EXCEPT ![i].st = IF run.success THEN "exit_ok" ELSE "exit_fail",
                            ![i].stderr = run.stderr]
    /\ disk' = EncoderOutput(disk, proc[i].command, run.wrote_playlist, run.segs)
    /\ UNCHANGED << video_input, output_profiles, encryption, ffmpeg_installed, pc,
                    input_dir_guard, task, completed, spawns, reads,
                    resolution_results, master_m3u8_data, outcome, builder_vars, reader_vars >>

Next ==
    \/ Validate
    \/ CreateOutputDir
    \/ Poll
    \/ GenerateMaster
    \/ RemoveOutputDir
    \/ ReturnOk
    \/ \E i \in Indices, run \in EncoderRuns : EncoderExit(i, run)

Spec == Init /\ [][Next]_vars

(***************************************************************************)
(* FairExitSpec: the runs of an in-memory source without encryption, under *)
(* the scheduling of the async runtime (a step of process_video_internal   *)
(* that can be taken is taken, and the try_join_all future is polled once  *)
(* it is woken), with encoders that all exit: an encoder that is running   *)
(* eventually exits.                                                       *)
(***************************************************************************)
FairProfiles ==
    { HlsVideoProcessingSettings(<<1920, 1080>>, 23, "Medium"),
      HlsVideoProcessingSettings(<<640, 360>>, 52, "Fast") }

FairInit ==
    /\ Init
    /\ video_input \in {InMemoryFile(Mp4Bytes), InMemoryFile(JunkBytes)}
    /\ encryption = None
    /\ \A k \in 1..Len(output_profiles) : output_profiles[k] \in FairProfiles

Fairness ==
    /\ WF_vars(Validate)
    /\ WF_vars(CreateOutputDir)
    /\ WF_vars(Poll)
    /\ WF_vars(GenerateMaster)
    /\ WF_vars(RemoveOutputDir)
    /\ WF_vars(ReturnOk)

EncodersExit ==
    WF_vars(\E i \in Indices, run \in EncoderRuns : EncoderExit(i, run))

FairExitSpec == FairInit /\ [][Next]_vars /\ Fairness /\ EncodersExit

(***************************************************************************)
(* BuilderSpec: an FfmpegCommandBuilder driven by any sequence of setter   *)
(* calls and build() calls.  The run's variables stay as they are.         *)
(***************************************************************************)
RunIdle ==
    /\ video_input = InMemoryFile(<<>>)
    /\ output_profiles = <<>>
    /\ encryption = None
    /\ ffmpeg_installed = TRUE
    /\ pc = "idle"
    /\ input_dir_guard = None
    /\ task = <<>>
    /\ proc = <<>>
    /\ completed = <<>>
    /\ spawns = <<>>
    /\ reads = <<>>
    /\ resolution_results = <<>>
    /\ master_m3u8_data = <<>>
    /\ outcome = None

BuilderInit == RunIdle /\ disk = SourceDisk /\ BuilderIdle /\ ReaderIdle

\* a setter call: the builder it leaves, the setter's name, and the settings
\* it was given invalid values for
SetterCall(b, name, invalid) ==
    /\ Len(violations) + Len(invalid) <= MaxViolations
    /\ builder' = b
    /\ built' = None
    /\ supplied' = supplied \cup {name}
    /\ violations' = violations \o invalid
    /\ UNCHANGED << service_args, run_vars, reader_vars >>

CallInput(path) == SetterCall(input(builder, path), "input", <<>>)

CallOutput(path) == SetterCall(output(builder, path), "output", <<>>)

CallDimensions(width, height) ==
    SetterCall(dimensions(builder, width, height), "dimensions",
               IF width > 0 /\ height > 0 THEN <<>> ELSE <<"dimensions">>)

CallCrf(value) ==
    SetterCall(crf(builder, value), "crf",
               IF value \in 0..51 THEN <<>> ELSE <<"crf">>)

CallPreset(name) ==
    SetterCall(preset(builder, name), "preset",
               IF name \in {Str(x) : x \in valid_presets} THEN <<>> ELSE <<"preset">>)

CallEnableHls(pattern, duration) ==
    SetterCall(enable_hls(builder, pattern, None, None, None, duration), "enable_hls",
               (IF pattern /= <<>> /\ ContainsPercent(pattern) THEN <<>> ELSE <<"pattern">>)
               \o (IF duration > 0 THEN <<>> ELSE <<"duration">>))

\* build(): a build that succeeds with HLS enabled and an output path that
\* has an extension records a violation of its own
CallBuild ==
    /\ builder' = build(builder).builder
    /\ built' = Some(build(builder).res)
    /\ violations' =
            IF /\ build(builder).res.ok
               /\ "enable_hls" \in supplied
               /\ IsSome(extension(builder.command.output_path))
            THEN Append(violations, "output_extension")
            ELSE violations
    /\ UNCHANGED << supplied, service_args, run_vars, reader_vars >>

BuilderNext ==
    \/ \E path \in {<<>>, VideoPath} : CallInput(path)
    \/ \E path \in {<<>>, PlaylistFilename(TempDirPath, 0), TempDirPath} : CallOutput(path)
    \/ \E d \in {<<1920, 1080>>, <<0, 720>>} : CallDimensions(d[1], d[2])
    \/ \E value \in {-1, 23, 52} : CallCrf(value)
    \/ \E name \in {Str("medium"), Str("veryfast")} : CallPreset(name)
    \/ \E pattern \in {SegmentFilename(TempDirPath, 0), <<"segment", ".ts">>},
          duration \in {10, 0} : CallEnableHls(pattern, duration)
    \/ CallBuild

BuilderSpec == BuilderInit /\ [][BuilderNext]_vars

(***************************************************************************)
(* OnceSpec: a fresh FfmpegCommandBuilder on which input, output,          *)
(* dimensions, crf, preset and enable_hls are each called once, in any     *)
(* order, and build() is called once after them.                           *)
(***************************************************************************)
Setters == {"input", "output", "dimensions", "crf", "preset", "enable_hls"}

\* the first call of a setter, before build()
OnceCall(b, name, invalid) ==
    /\ name \notin supplied
    /\ built = None
    /\ builder' = b
    /\ built' = None
    /\ supplied' = supplied \cup {name}
    /\ violations' = violations \o invalid
    /\ UNCHANGED << service_args, run_vars, reader_vars >>

OnceInput(path) == OnceCall(input(builder, path), "input", <<>>)

OnceOutput(path) == OnceCall(output(builder, path), "output", <<>>)

OnceDimensions(width, height) ==
    OnceCall(dimensions(builder, width, height), "dimensions",
             IF width > 0 /\ height > 0 THEN <<>> ELSE <<"dimensions">>)

OnceCrf(value) ==
    OnceCall(crf(builder, value), "crf",
             IF value \in 0..51 THEN <<>> ELSE <<"crf">>)

OncePreset(name) ==
    OnceCall(preset(builder, name), "preset",
             IF name \in {Str(x) : x \in valid_presets} THEN <<>> ELSE <<"preset">>)

OnceEnableHls(pattern, duration) ==
    OnceCall(enable_hls(builder, pattern, None, None, None, duration), "enable_hls",
             (IF pattern /= <<>> /\ ContainsPercent(pattern) THEN <<>> ELSE <<"pattern">>)
             \o (IF duration > 0 THEN <<>> ELSE <<"duration">>))

\* the first build(), after the six setters
OnceBuild ==
    /\ supplied = Setters
    /\ built = None
    /\ CallBuild

\* the segment patterns given to enable_hls: the pattern of process_profile,
\* one without a '%', the empty one, and one with a '%' that is no format
\* specifier
OncePatterns ==
    { SegmentFilename(TempDirPath, 0),
      <<"segment", ".ts">>,
      <<>>,
      TempDirPath \o <<"/", "data_", "%", ".ts">> }

OnceNext ==
    \/ \E path \in {<<>>, VideoPath} : OnceInput(path)
    \/ \E path \in {<<>>, PlaylistFilename(TempDirPath, 0), TempDirPath} : OnceOutput(path)
    \/ \E d \in {<<1920, 1080>>, <<0, 720>>, <<1280, 0>>} : OnceDimensions(d[1], d[2])
    \/ \E value \in {-1, 0, 51, 52} : OnceCrf(value)
    \/ \E name \in {Str("medium"), Str("veryfast")} : OncePreset(name)
    \/ \E pattern \in OncePatterns, duration \in {10, 0} : OnceEnableHls(pattern, duration)
    \/ OnceBuild

OnceSpec == BuilderInit /\ [][OnceNext]_vars

(***************************************************************************)
(* ReaderSpec: read_playlist_and_segments applied to the outputs of an     *)
(* encoder that wrote any set of segments.                                 *)
(***************************************************************************)
ReaderInit ==
    /\ RunIdle
    /\ BuilderIdle
    /\ reader_result = None
    /\ reader_loop = None
    /\ \E stream_index \in 0..(MaxProfiles - 1), wrote_playlist \in BOOLEAN,
          segs \in SUBSET (0..MaxSeg) :
            LET profile == HlsVideoProcessingSettings(<<1280, 720>>, 23, "Medium")
                command == ProfileCommand(VideoPath, profile, TempDirPath,
                                          stream_index, None).val
            IN  /\ reader_args =
                        [playlist_filename |-> PlaylistFilename(TempDirPath, stream_index),
                         segment_filename |-> SegmentFilename(TempDirPath, stream_index),
                         resolution |-> profile.resolution,
                         stream_index |-> stream_index,
                         segs |-> segs]
                /\ disk = EncoderOutput(MakeDir(SourceDisk, TempDirPath), command,
                                        wrote_playlist, segs)

\* the call of read_playlist_and_segments
ReadOutputs ==
    /\ reader_result = None
    /\ reader_result' =
            Some(read_playlist_and_segments(disk, reader_args.playlist_filename,
                    reader_args.segment_filename, reader_args.resolution,
                    reader_args.stream_index))
    /\ UNCHANGED << run_vars, builder_vars, reader_args, reader_loop >>

ReaderNext == ReadOutputs

ReaderSpec == ReaderInit /\ [][ReaderNext]_vars

(***************************************************************************)
(* DiscoverySpec: read_playlist_and_segments run statement by statement,   *)
(* one iteration of its loop at a time, on segment patterns enable_hls     *)
(* accepts and on any set of files in the working directory.               *)
(***************************************************************************)
\* segment patterns that are not empty and contain a '%': the pattern of
\* process_profile, one with another format specifier, one with a lone '%'
DiscoveryPatterns ==
    { SegmentFilename(TempDirPath, 0),
      TempDirPath \o <<"/", "data_", "0", "_", "%d", ".ts">>,
      TempDirPath \o <<"/", "data_", "%", ".ts">> }

\* the files that may be in the working directory: the segments the
\* patterns name for the first indices
DiscoveryFiles ==
    { Replace(pattern, "%03d", Pad3(k)) : pattern \in DiscoveryPatterns,
                                          k \in 0..(MaxSeg - 1) }

DiscoveryInit ==
    /\ RunIdle
    /\ BuilderIdle
    /\ reader_result = None
    /\ reader_loop = None
    /\ \E pattern \in DiscoveryPatterns, wrote_playlist \in BOOLEAN,
          files \in SUBSET DiscoveryFiles :
            /\ reader_args =
                    [playlist_filename |-> PlaylistFilename(TempDirPath, 0),
                     segment_filename |-> pattern,
                     resolution |-> <<1280, 720>>,
                     stream_index |-> 0,
                     segs |-> {k \in 0..(MaxSeg - 1) :
                                Replace(pattern, "%03d", Pad3(k)) \in files}]
            /\ disk = [q \in DOMAIN MakeDir(SourceDisk, TempDirPath) \cup files
                                \cup (IF wrote_playlist
                                      THEN {PlaylistFilename(TempDirPath, 0)} ELSE {}) |->
                            IF q \in DOMAIN SourceDisk THEN SourceDisk[q]
                            ELSE IF q = TempDirPath THEN Dir
                            ELSE File(EncodedData(q))]

\* segment_tools.rs lines 61-64: open and read the playlist, segment_index = 0
OpenPlaylist ==
    /\ reader_result = None
    /\ reader_loop = None
    /\ IF ~(exists(disk, reader_args.playlist_filename)
            /\ disk[reader_args.playlist_filename].is_file)
       THEN /\ reader_result' =
                    Some(Err(HlsKitError("IO", [variant |-> "NotFound",
                                                msg |-> reader_args.playlist_filename])))
            /\ reader_loop' = reader_loop
       ELSE /\ reader_loop' = Some([segment_index |-> 0, segments |-> <<>>])
            /\ reader_result' = reader_result
    /\ UNCHANGED << run_vars, builder_vars, reader_args >>

\* segment_tools.rs lines 66-83: one iteration of the loop (the model follows
\* the loop for MaxSeg + 2 iterations)
LoopIteration ==
    /\ reader_result = None
    /\ IsSome(reader_loop)
    /\ Unwrap(reader_loop).segment_index < MaxSeg + 2
    /\ LET segment_index == Unwrap(reader_loop).segment_index
           segment_path == Replace(reader_args.segment_filename, "%03d",
                                   Pad3(segment_index))
       IN  IF ~exists(disk, segment_path)
           THEN /\ reader_result' =
                        Some(Ok(HlsVideoResolution(reader_args.resolution,
                                    PlaylistName(reader_args.stream_index),
                                    disk[reader_args.playlist_filename].data,
                                    Unwrap(reader_loop).segments)))
                /\ reader_loop' = reader_loop
           ELSE /\ reader_loop' =
                        Some([segment_index |-> segment_index + 1,
                              segments |-> Append(Unwrap(reader_loop).segments,
                                    HlsVideoSegment(
                                        SegmentName(reader_args.stream_index, segment_index),
                                        disk[segment_path].data))])
                /\ reader_result' = reader_result
    /\ UNCHANGED << run_vars, builder_vars, reader_args >>

DiscoveryNext == OpenPlaylist \/ LoopIteration

DiscoverySpec == DiscoveryInit /\ [][DiscoveryNext]_vars

(***************************************************************************)
(* ValidateSpec: line 251 of process_video_internal, input.validate()?, on *)
(* every source of ValidateInputs.                                         *)
(***************************************************************************)
ValidateInit ==
    /\ video_input \in ValidateInputs
    /\ disk = ValidateDisk
    /\ pc = "validate"
    /\ output_profiles = <<>>
    /\ encryption = None
    /\ ffmpeg_installed = TRUE
    /\ input_dir_guard = None
    /\ task = <<>>
    /\ proc = <<>>
    /\ completed = <<>>
    /\ spawns = <<>>
    /\ reads = <<>>
    /\ resolution_results = <<>>
    /\ master_m3u8_data = <<>>
    /\ outcome = None
    /\ BuilderIdle
    /\ ReaderIdle

ValidateNext == Validate

ValidateSpec == ValidateInit /\ [][ValidateNext]_vars

(***************************************************************************)
(* MasterSpec: process_video_internal from line 279 on, after try_join_all *)
(* has returned the results of every profile, on a file system where the   *)
(* working directory is there, is there with an older master.m3u8, or has  *)
(* been removed meanwhile.                                                 *)
(***************************************************************************)
MasterResolutions == { <<1920, 1080>>, <<1280, 720>>, <<854, 480>>, <<640, 360>> }

MasterPath == TempDirPath \o <<"/", "master", ".m3u8">>

MasterDisks ==
    { SourceDisk,
      MakeDir(SourceDisk, TempDirPath),
      WriteFile(MakeDir(SourceDisk, TempDirPath), MasterPath, Line(<<"#EXTM3U">>)) }

MasterInit ==
    /\ video_input = FilePath(VideoPath)
    /\ input_dir_guard = Some(VideoInputPathGuard(VideoPath, None))
    /\ encryption = None
    /\ ffmpeg_installed = TRUE
    /\ pc = "master"
    /\ disk \in MasterDisks
    /\ \E n \in 0..MaxProfiles : \E rs \in [1..n -> MasterResolutions] :
        /\ output_profiles = [k \in 1..n |-> HlsVideoProcessingSettings(rs[k], 23, "Medium")]
        /\ resolution_results =
                [k \in 1..n |->
                    HlsVideoResolution(rs[k], PlaylistName(k - 1),
                        EncodedData(PlaylistFilename(TempDirPath, k - 1)), <<>>)]
        /\ task = [i \in 0..(n - 1) |->
                    [st |-> "done", res |-> Some(Ok(resolution_results[i + 1]))]]
        /\ proc = [i \in 0..(n - 1) |->
                    [st |-> "exit_ok",
                     command |-> ProfileCommand(VideoPath, output_profiles[i + 1],
                                                TempDirPath, i, None).val,
                     stderr |-> <<>>]]
        /\ completed = [k \in 1..n |-> k - 1]
        /\ spawns = [i \in 0..(n - 1) |-> 1]
        /\ reads = [i \in 0..(n - 1) |-> 1]
    /\ master_m3u8_data = <<>>
    /\ outcome = None
    /\ BuilderIdle
    /\ ReaderIdle

MasterNext ==
    \/ GenerateMaster
    \/ RemoveOutputDir
    \/ ReturnOk

MasterSpec == MasterInit /\ [][MasterNext]_vars

(***************************************************************************)
(* Properties.                                                             *)
(***************************************************************************)
Returned == pc = "returned" /\ IsSome(outcome)
ReturnedOk == Returned /\ Unwrap(outcome).ok
ReturnedErr == Returned /\ ~Unwrap(outcome).ok

\* the lines of a text: its pieces between line feeds
RECURSIVE Lines(_)
Lines(text) ==
    IF text = <<>> THEN <<>>
    ELSE LET feeds == {k \in 1..Len(text) : text[k] = "\n"}
         IN  IF feeds = {} THEN << text >>
             ELSE LET k == CHOOSE j \in feeds : \A m \in feeds : j <= m
                  IN  << SubSeq(text, 1, k - 1) >> \o Lines(SubSeq(text, k + 1, Len(text)))

\* C1: a package is returned only with exactly N variant results, the one at
\* position i being the one produced for profile i: its playlist name is
\* playlist_i.m3u8, its resolution is profile i's and its playlist bytes are
\* those the encoder of stream index i wrote, whatever the completion order.
C1_ResultsInProfileOrder ==
    ReturnedOk =>
        LET r == Unwrap(outcome).val.resolutions
        IN  /\ Len(r) = N
            /\ \A i \in Indices :
                /\ r[i + 1].playlist_name = <<"playlist_", ToString(i), ".m3u8">>
                /\ r[i + 1].resolution = output_profiles[i + 1].resolution
                /\ r[i + 1].playlist_data =
                        EncodedData(TempDirPath \o <<"/", "playlist_", ToString(i), ".m3u8">>)

\* C1 witness: a package of two variants of different resolutions whose
\* tasks finished in the reverse of the profile order
C1_Witness ==
    /\ ReturnedOk
    /\ N = 2
    /\ completed = <<1, 0>>
    /\ output_profiles[1].resolution /= output_profiles[2].resolution

\* C2: once an encoder subprocess has exited with a non-zero status, the run
\* never reaches the success path: no master playlist is generated and the
\* value returned, if any, is an error and not a package.
C2_NonZeroExitFailsRun ==
    (\E i \in Indices : proc[i].st = "exit_fail") =>
        /\ pc \notin {"master", "remove_output_dir", "return_ok"}
        /\ master_m3u8_data = <<>>
        /\ (pc = "returned" => ReturnedErr /\ Unwrap(outcome).val = <<>>)

\* C2 witness: the run returned the error of an encoder that exited non-zero
\* after another profile's outputs had been read into memory
C2_Witness ==
    /\ ReturnedErr
    /\ Unwrap(outcome).err.kind = "CommandExecutionError"
    /\ \E i, j \in Indices :
        /\ proc[i].st = "exit_fail" /\ task[i].st = "failed"
        /\ proc[j].st = "exit_ok" /\ task[j].st = "done" /\ reads[j] = 1

\* whether a profile has a setting the command builder rejects
InvalidSetting(profile) ==
    \/ profile.resolution[1] <= 0
    \/ profile.resolution[2] <= 0
    \/ profile.constant_rate_factor < 0
    \/ profile.constant_rate_factor > 51
    \/ PresetValue[profile.preset] \notin valid_presets

ExpectedInputError ==
    IF video_input.type = "InMemoryFile" /\ video_input.data = <<>>
        THEN Some("EmptyVideoInput")
    ELSE IF video_input.type = "FilePath" /\ video_input.path = <<>>
        THEN Some("EmptyVideoInput")
    ELSE IF video_input.type = "FilePath" /\ video_input.path \notin DOMAIN SourceDisk
        THEN Some("FileNotFound")
    ELSE None

\* C4: with an empty buffer, an empty path or a path that does not exist, the
\* working directory is never created, no profile task is started, and the
\* run returns EmptyVideoInput (empty) or FileNotFound (missing path).
C4_BadSourceFailsBeforeOutputDir ==
    IsSome(ExpectedInputError) =>
        /\ ~exists(disk, TempDirPath)
        /\ pc \in {"validate", "returned"}
        /\ \A i \in Indices : task[i].st = "created" /\ spawns[i] = 0
        /\ (pc = "returned" =>
                /\ ReturnedErr
                /\ Unwrap(outcome).err.kind = "VideoValidationError"
                /\ Unwrap(outcome).err.variant = Unwrap(ExpectedInputError))

\* C4 witness: a run on a path that does not exist returned FileNotFound
\* with profiles to process
C4_Witness ==
    /\ ReturnedErr
    /\ video_input = FilePath(MissingPath)
    /\ Unwrap(outcome).err.variant = "FileNotFound"
    /\ N >= 1

\* the master playlist a run produced, once generate_master_playlist returned
MasterLines == Lines(master_m3u8_data)
MasterGenerated == pc \in {"remove_output_dir", "return_ok"} \/ ReturnedOk

\* C5: the master playlist is the line #EXTM3U followed by exactly N pairs of
\* lines, the i-th an #EXT-X-STREAM-INF line with RESOLUTION=<w_i>x<h_i>
\* followed by playlist_i.m3u8, in profile order and with no other line.
C5_MasterPlaylistLines ==
    MasterGenerated =>
        /\ Len(MasterLines) = 1 + 2 * N
        /\ MasterLines[1] = <<"#EXTM3U">>
        /\ \A i \in Indices :
            LET inf == MasterLines[2 * i + 2]
                w == ToString(output_profiles[i + 1].resolution[1])
                h == ToString(output_profiles[i + 1].resolution[2])
            IN  /\ Len(inf) = 6
                /\ inf[1] = "#EXT-X-STREAM-INF:BANDWIDTH="
                /\ SubSeq(inf, 3, 6) = <<",RESOLUTION=", w, "x", h>>
                /\ MasterLines[2 * i + 3] = <<"playlist_", ToString(i), ".m3u8">>

\* C5 witness: a master playlist of two variants was generated
C5_Witness == MasterGenerated /\ N = 2 /\ Len(MasterLines) = 5

\* C6: the BANDWIDTH value of the #EXT-X-STREAM-INF line of the profile at
\* position i is (i+1) * 1500000, whatever the profile and completion order.
C6_BandwidthByPosition ==
    MasterGenerated =>
        \A i \in Indices :
            MasterLines[2 * i + 2][2] = ToString((i + 1) * 1500000)

\* C6 witness: a master playlist of two variants whose tasks finished in
\* reverse order and whose second variant has the larger resolution
C6_Witness ==
    /\ MasterGenerated
    /\ N = 2
    /\ completed = <<1, 0>>
    /\ output_profiles[1].resolution[1] < output_profiles[2].resolution[1]

\* the smallest natural number not in S
Mex(S) == CHOOSE k \in 0..(Cardinality(S)) : k \notin S /\ \A j \in 0..(k - 1) : j \in S

\* C7: when the playlist exists and the segments with the sequence numbers
\* in S exist, read_playlist_and_segments succeeds with exactly k segments,
\* k the smallest natural number not in S; segments above the first gap are
\* ignored without error.
C7_SegmentsAreContiguousPrefix ==
    (IsSome(reader_result) /\ exists(disk, reader_args.playlist_filename)) =>
        /\ Unwrap(reader_result).ok
        /\ Len(Unwrap(reader_result).val.segments) = Mex(reader_args.segs)

\* C7 witness: segments 0, 1 and 3 exist and two segments were read
C7_Witness ==
    /\ IsSome(reader_result)
    /\ reader_args.segs = {0, 1, 3}
    /\ Unwrap(reader_result).ok
    /\ Len(Unwrap(reader_result).val.segments) = 2

\* the required fields that were not supplied (a path supplied empty counts
\* as not supplied)
MissingRequired ==
    {f \in {"input", "output", "dimensions", "crf", "preset"} : f \notin supplied}
    \cup (IF builder.command.input_path = <<>> THEN {"input"} ELSE {})
    \cup (IF builder.command.output_path = <<>> THEN {"output"} ELSE {})

\* the violations setter calls recorded
SetterViolations == SelectSeq(violations, LAMBDA v : v /= "output_extension")

BuildFailed == IsSome(built) /\ ~Unwrap(built).ok
BuildSucceeded == IsSome(built) /\ Unwrap(built).ok

\* C8: build() returns an argument vector only if no setter call has
\* recorded a violation and input, output, dimensions, quality factor and
\* preset have each been supplied, input and output non-empty.
C8_BuildOnlyWhenComplete ==
    BuildSucceeded =>
        /\ SetterViolations = <<>>
        /\ MissingRequired = {}
        /\ Unwrap(built).val /= <<>>

\* C8 witness: a build() that returned an argument vector
C8_Witness ==
    /\ BuildSucceeded
    /\ supplied = {"input", "output", "dimensions", "crf", "preset", "enable_hls"}

\* the message build() reports for a missing required field
FieldMessage(f) ==
    CASE f = "input" -> <<"Input path must be set using .input().">>
      [] f = "output" -> <<"Output path must be set using .output().">>
      [] f = "dimensions" ->
            <<"Output dimensions (width and height) must be set using .dimensions().">>
      [] f = "crf" -> <<"CRF (quality) must be set using .crf().">>
      [] f = "preset" -> <<"Preset must be set using .preset().">>

\* the pieces of a token sequence between separators
RECURSIVE SplitOn(_, _)
SplitOn(text, sep) ==
    LET at == {k \in 1..Len(text) : text[k] = sep}
    IN  IF at = {} THEN << text >>
        ELSE LET k == CHOOSE j \in at : \A m \in at : j <= m
             IN  << SubSeq(text, 1, k - 1) >> \o SplitOn(SubSeq(text, k + 1, Len(text)), sep)

\* the violation a reported message is about
ViolationOf(message) ==
    IF Len(message) < 2 \/ message[1] /= "FFmpeg specific setting error: " THEN "unknown"
    ELSE CASE message[2] = "Width and height must be positive values." -> "dimensions"
           [] message[2] = "CRF value " -> "crf"
           [] message[2] = "Preset '" -> "preset"
           [] message[2] = "HLS segment filename pattern must not be empty and should contain a format specifier (e.g., %03d)." -> "pattern"
           [] message[2] = "HLS segment duration must be positive." -> "duration"
           [] message[2] = "When enabling HLS, the output path should typically be a directory, not a specific file extension." -> "output_extension"
           [] OTHER -> "unknown"

\* the violations an error of build() lists, in the order it lists them
ListedViolations(e) ==
    IF e.variant /= "BuildError" \/ Len(e.msg) < 3 THEN <<>>
    ELSE LET messages == SplitOn(SubSeq(e.msg, 2, Len(e.msg) - 1), "; ")
         IN  [k \in 1..Len(messages) |-> ViolationOf(messages[k])]

\* the missing required fields an error of build() names
NamedMissing(e) ==
    {f \in {"input", "output", "dimensions", "crf", "preset"} :
        e.variant = "ConfigurationError" /\ e.msg = FieldMessage(f)}

\* the first missing required field, in the order build() checks them
FirstMissing ==
    LET order == <<"input", "output", "dimensions", "crf", "preset">>
        k == CHOOSE j \in 1..5 : order[j] \in MissingRequired
                                 /\ \A m \in 1..(j - 1) : order[m] \notin MissingRequired
    IN  order[k]

\* C9 as claimed: the error of a failed build() lists every violation
\* recorded and every required field that was not supplied.
C9_ErrorListsEverything ==
    BuildFailed =>
        /\ NamedMissing(Unwrap(built).err) = MissingRequired
        /\ ListedViolations(Unwrap(built).err) = violations

\* C9 amended: when violations are recorded, the error of a failed build() is
\* a BuildError listing every recorded violation in the order of the calls
\* and naming no missing field; when none is recorded, it is a
\* ConfigurationError naming only the first missing required field, in the
\* order input, output, dimensions, quality factor, preset.
C9_ErrorListsViolationsOrFirstMissing ==
    BuildFailed =>
        LET e == Unwrap(built).err
        IN  IF violations /= <<>>
            THEN /\ e.variant = "BuildError"
                 /\ ListedViolations(e) = violations
                 /\ NamedMissing(e) = {}
            ELSE /\ e.variant = "ConfigurationError"
                 /\ MissingRequired /= {}
                 /\ NamedMissing(e) = {FirstMissing}

\* C9 witness: a failed build() with two violations recorded and a required
\* field missing
C9_Witness ==
    /\ BuildFailed
    /\ Len(violations) = 2
    /\ violations[1] /= violations[2]
    /\ MissingRequired /= {}

\* C10: the task of a profile whose quality factor is outside [0,51] fails
\* with a builder error when it is polled, never spawns its encoder
\* subprocess and never reads output files.
C10_BadCrfNeverSpawns ==
    \A i \in Indices :
        LET q == output_profiles[i + 1].constant_rate_factor
        IN  (q < 0 \/ q > 51) =>
                /\ spawns[i] = 0
                /\ proc[i].st = "none"
                /\ reads[i] = 0
                /\ task[i].st \in {"created", "failed"}
                /\ (task[i].st = "failed" =>
                        /\ Unwrap(task[i].res).err.kind = "FFMPEGBUILDER"
                        /\ Unwrap(task[i].res).err.variant = "BuildError")

\* C10 witness: the task of a profile with quality factor 52 has failed
C10_Witness ==
    \E i \in Indices :
        /\ output_profiles[i + 1].constant_rate_factor = 52
        /\ task[i].st = "failed"
        /\ ReturnedErr

\* whether data has the bytes sig at the zero-based offset
SignatureAt(data, offset, sig) ==
    /\ Len(data) >= offset + Len(sig)
    /\ \A k \in 1..Len(sig) : data[offset + k] = sig[k]

\* whether data carries the signature of a container: "ftyp" at bytes 4..8,
\* the EBML header at bytes 0..4, or "RIFF" at 0..4 with "AVI " at 8..12
ContainerSignature(data, container) ==
    CASE container \in {"mp4", "mov"} -> SignatureAt(data, 4, <<102, 116, 121, 112>>)
      [] container = "mkv" -> SignatureAt(data, 0, <<26, 69, 223, 163>>)
      [] container = "avi" -> /\ SignatureAt(data, 0, <<82, 73, 70, 70>>)
                              /\ SignatureAt(data, 8, <<65, 86, 73, 32>>)

SupportedContainers == {"mp4", "mkv", "avi", "mov"}

\* the supported container the extension of a path names, whatever its case
ContainerOfPath(path) ==
    IF Len(path) < 2 THEN None
    ELSE CASE path[Len(path)] \in {".mp4", ".MP4"} -> Some("mp4")
           [] path[Len(path)] \in {".mkv"} -> Some("mkv")
           [] path[Len(path)] \in {".avi", ".Avi"} -> Some("avi")
           [] path[Len(path)] \in {".mov"} -> Some("mov")
           [] OTHER -> None

\* validate has returned
Validated == pc /= "validate"

\* the variant of the validation error the run returned, if it returned one
ValidationError ==
    IF ReturnedErr /\ Unwrap(outcome).err.kind = "VideoValidationError"
    THEN Some(Unwrap(outcome).err.variant)
    ELSE None

Finished(i) == task[i].st \in {"done", "failed"}

\* the error the task of stream index i finished with
TaskError(i) == Unwrap(task[i].res).err

Spawned == {i \in Indices : proc[i].st /= "none"}

\* the path of the input every command of the run reads
RunInputPath ==
    IF video_input.type = "InMemoryFile" THEN <<"/tmp/", ".tmpInput">>
    ELSE video_input.path

\* the lower-case preset names of the profiles
PresetNames ==
    [p \in {"VerySlow", "Slower", "Slow", "Medium", "Fast", "Faster", "VeryFast",
            "SuperFast", "UltraFast"} |->
        CASE p = "VerySlow" -> "veryslow" [] p = "Slower" -> "slower"
          [] p = "Slow" -> "slow" [] p = "Medium" -> "medium"
          [] p = "Fast" -> "fast" [] p = "Faster" -> "faster"
          [] p = "VeryFast" -> "veryfast" [] p = "SuperFast" -> "superfast"
          [] p = "UltraFast" -> "ultrafast"]

\* the tokens of the command of stream index i up to the segment pattern
CommandHead(i) ==
    LET profile == output_profiles[i + 1]
    IN  << <<"ffmpeg">>, <<"-i">>, RunInputPath,
           <<"-vf">>, <<"scale=", ToString(profile.resolution[1]), "x",
                       ToString(profile.resolution[2])>>,
           <<"-c:v">>, <<"libx264">>,
           <<"-crf">>, <<ToString(profile.constant_rate_factor)>>,
           <<"-preset">>, <<PresetNames[profile.preset]>>,
           <<"-hls_time">>, <<"10">>,
           <<"-hls_playlist_type">>, <<"vod">>,
           <<"-hls_segment_filename">>,
           <<"/tmp/", ".tmpOutput", "/", "data_", ToString(i), "_", "%03d", ".ts">> >>

\* the last token of the command of stream index i: the output playlist path
CommandTail(i) ==
    << <<"/tmp/", ".tmpOutput", "/", "playlist_", ToString(i), ".m3u8">> >>

\* the encryption options the interface allows: none, the key info file, or
\* the key info file and the IV
AllowedEncryptionOptions ==
    { <<>> }
    \cup { << <<"-hls_key_info_file">>, Unwrap(e).encryption_key_path >> :
                e \in EncryptionChoices \ {None} }
    \cup { << <<"-hls_key_info_file">>, Unwrap(e).encryption_key_path,
              <<"-hls_iv">>, Unwrap(Unwrap(e).iv) >> :
                e \in {x \in EncryptionChoices \ {None} : IsSome(Unwrap(x).iv)} }

\* C14 as claimed: the command of every profile is the fixed options, then
\* optionally -hls_key_info_file <path> optionally followed by -hls_iv <iv>,
\* then the output playlist path, and nothing else.
C14_CommandHasNoOtherOption ==
    \A i \in Spawned :
        \E options \in AllowedEncryptionOptions :
            proc[i].command = CommandHead(i) \o options \o CommandTail(i)

\* the options the run's encryption settings add to a command
EncryptionOptions ==
    IF IsNone(encryption) THEN <<>>
    ELSE << <<"-hls_base_url">>, Unwrap(encryption).encryption_key_url,
            <<"-hls_key_info_file">>, Unwrap(encryption).encryption_key_path >>
         \o (IF IsSome(Unwrap(encryption).iv)
             THEN << <<"-hls_iv">>, Unwrap(Unwrap(encryption).iv) >>
             ELSE <<>>)

\* C14 amended: the command of every profile is the fixed options, then, when
\* the run has encryption settings, -hls_base_url <key URL> and
\* -hls_key_info_file <path>, followed by -hls_iv <iv> when an IV was given,
\* then the output playlist path, and nothing else.
C14_CommandWithBaseUrlWhenEncrypted ==
    \A i \in Spawned :
        proc[i].command = CommandHead(i) \o EncryptionOptions \o CommandTail(i)

\* C14 witness: a command spawned in a run with encryption settings and an IV
C14_Witness ==
    /\ IsSome(encryption)
    /\ IsSome(Unwrap(encryption).iv)
    /\ \E i \in Spawned : Len(proc[i].command) = 24

\* the positions of a token in a command
PositionsOf(command, token) == {k \in 1..Len(command) : command[k] = <<token>>}

\* C15: with encryption settings, the command of every profile has
\* -hls_key_info_file once, followed by the key file path, and -hls_iv, once
\* and followed by the IV, exactly when an IV was supplied; without
\* encryption settings no command has either; -hls_iv never appears in a
\* command without -hls_key_info_file.
C15_SameEncryptionArgumentsInEveryCommand ==
    \A i \in Spawned :
        LET c == proc[i].command
            key == PositionsOf(c, "-hls_key_info_file")
            iv == PositionsOf(c, "-hls_iv")
        IN  /\ iv /= {} => key /= {}
            /\ IsNone(encryption) => (key = {} /\ iv = {})
            /\ IsSome(encryption) =>
                    /\ Cardinality(key) = 1
                    /\ \A k \in key : k < Len(c)
                            /\ c[k + 1] = Unwrap(encryption).encryption_key_path
                    /\ (iv /= {}) <=> IsSome(Unwrap(encryption).iv)
                    /\ Cardinality(iv) <= 1
                    /\ \A k \in iv : k < Len(c)
                            /\ c[k + 1] = Unwrap(Unwrap(encryption).iv)

\* C15 witness: two commands spawned in a run with encryption settings and
\* an IV
C15_Witness ==
    /\ IsSome(encryption)
    /\ IsSome(Unwrap(encryption).iv)
    /\ N = 2
    /\ Spawned = {0, 1}

\* the paths of the working directory and of what is in it
InOutputDir == {q \in DOMAIN disk : IsPrefix(<<"/tmp/", ".tmpOutput">>, q)}

\* the run failed after the working directory was created
FailedAfterOutputDir == ReturnedErr /\ IsSome(input_dir_guard)

\* C16 as claimed: after a run has failed with its working directory
\* created, the working directory still exists.
C16_OutputDirKeptOnError ==
    FailedAfterOutputDir => <<"/tmp/", ".tmpOutput">> \in InOutputDir

\* C16 amended: the step in which a run fails after its working directory
\* was created removes the working directory and every file in it, when no
\* encoder of the run is running at that moment.
C16_OutputDirRemovedOnError ==
    [][ (/\ pc \in {"join", "master"}
         /\ pc' = "returned"
         /\ \A i \in Indices : proc'[i].st /= "running")
            => \A q \in DOMAIN disk' : ~IsPrefix(<<"/tmp/", ".tmpOutput">>, q) ]_vars

\* C16 witness: a run of two profiles has failed after the outputs of one of
\* them were written and read, no encoder is running, and the working
\* directory is gone
C16_Witness ==
    /\ FailedAfterOutputDir
    /\ N = 2
    /\ \E i \in Indices : task[i].st = "done" /\ reads[i] = 1
    /\ \A i \in Indices : proc[i].st /= "running"
    /\ InOutputDir = {}

\* C18: for an in-memory source, the temporary input file validation created
\* exists and holds the buffer in every state from the successful validation
\* until process_video_internal returns, and does not exist once it has
\* returned, with a package or with an error.
C18_TempInputLivesUntilReturn ==
    (video_input.type = "InMemoryFile" /\ IsSome(input_dir_guard)) =>
        LET path == Unwrap(input_dir_guard).path
        IN  IF pc /= "returned"
            THEN /\ path \in DOMAIN disk
                 /\ disk[path].is_file
                 /\ disk[path].data = video_input.data
            ELSE path \notin DOMAIN disk

\* C18 witness: a run on an in-memory source has returned an error after an
\* encoder had been spawned on the temporary input file
C18_Witness ==
    /\ video_input.type = "InMemoryFile"
    /\ FailedAfterOutputDir
    /\ \E i \in Spawned : proc[i].command[3] = Unwrap(input_dir_guard).path
    /\ Unwrap(input_dir_guard).path \notin DOMAIN disk

\* the tasks whose failure the orchestrator has observed
FailedTasks == {i \in Indices : task[i].st = "failed"}

\* C19: the orchestrator observes the failure of at most one task: in the
\* state in which it has observed it the run has returned, the error
\* returned is the error of that task, and that task is the last one that
\* finished; the failure of no other task is observed or returned.
C19_FirstObservedErrorReturned ==
    /\ Cardinality(FailedTasks) <= 1
    /\ \A i \in FailedTasks :
        /\ ReturnedErr
        /\ Unwrap(outcome).err = TaskError(i)
        /\ completed[Len(completed)] = i
    /\ (FailedAfterOutputDir /\ Unwrap(outcome).err.kind /= "FileNotFound")
            => FailedTasks /= {}

\* C19 witness: the encoders of both profiles exited with a non-zero status
\* and different diagnostics; the run returned the error of the first and
\* never observed the second
C19_Witness ==
    /\ ReturnedErr
    /\ N = 2
    /\ proc[0].st = "exit_fail"
    /\ proc[1].st = "exit_fail"
    /\ proc[0].stderr /= proc[1].stderr
    /\ FailedTasks = {0}
    /\ task[1].st = "awaiting"
    /\ Unwrap(outcome).err.msg = <<"GStreamer failed: ">> \o proc[0].stderr

\* C20: the step in which the orchestrator returns an error leaves every
\* encoder subprocess as it is: one that is running when a sibling's failure
\* is observed is still running when the call has returned.
C20_ReturnLeavesEncodersRunning ==
    [][ (pc = "join" /\ pc' = "returned")
            => \A i \in Indices :
                    proc[i].st = "running" => proc'[i] = proc[i] ]_vars

\* C20 witness: the run has returned the error of one profile while the
\* encoder spawned for another profile is still running
C20_Witness ==
    /\ ReturnedErr
    /\ \E i, j \in Indices :
        /\ i /= j
        /\ task[i].st = "failed"
        /\ Unwrap(outcome).err = TaskError(i)
        /\ spawns[j] = 1
        /\ proc[j].st = "running"

\* C17: called when the working directory does not exist,
\* generate_master_playlist fails with FileNotFound naming the directory,
\* returns no playlist, creates no master.m3u8 and leaves the file system as
\* it is.
C17_MissingOutputDirIsFileNotFound ==
    [][ (pc = "master" /\ <<"/tmp/", ".tmpOutput">> \notin DOMAIN disk)
            => /\ pc' = "returned"
               /\ IsSome(outcome')
               /\ ~Unwrap(outcome').ok
               /\ Unwrap(outcome').err.kind = "FileNotFound"
               /\ Unwrap(outcome').err.msg = <<"/tmp/", ".tmpOutput">>
               /\ master_m3u8_data' = <<>>
               /\ disk' = disk
               /\ <<"/tmp/", ".tmpOutput", "/", "master", ".m3u8">> \notin DOMAIN disk' ]_vars

\* C17 witness: the master playlist of two variants failed with FileNotFound
C17_Witness ==
    /\ ReturnedErr
    /\ Unwrap(outcome).err.kind = "FileNotFound"
    /\ Len(resolution_results) = 2
    /\ <<"/tmp/", ".tmpOutput">> \notin DOMAIN disk

\* whether the encoder subprocess of stream index i is running
Running(i) == i \in DOMAIN proc /\ proc[i].st = "running"

\* C21 as claimed: process_video_internal does not return while a spawned
\* encoder has not terminated (nothing obliges a running encoder to exit,
\* so a return with an encoder running is a return in an execution in
\* which that encoder never terminates).
C21_HangNeverReturns ==
    \A i \in Indices : Running(i) => pc /= "returned"

\* C21 amended: as long as a spawned encoder has not terminated,
\* process_video_internal has not returned a package, and has returned an
\* error only if it has observed the failure of another profile's task; so
\* in an execution in which that encoder never terminates it never returns
\* a package, and returns an error only for another profile's failure.
C21_HangReturnsOnlySiblingError ==
    \A i \in Indices :
        (Running(i) /\ pc = "returned") =>
            (ReturnedErr /\ \E j \in FailedTasks : j /= i)

\* C21 witness: the outputs of one profile have been read, and the run waits
\* on the encoder of the other, which is still running
C21_Witness ==
    /\ pc = "join"
    /\ N = 2
    /\ \E i, j \in Indices :
        /\ task[i].st = "done" /\ reads[i] = 1
        /\ task[j].st = "awaiting" /\ proc[j].st = "running"

\* whether validation, every task, and the master playlist succeeded
AllSucceeded ==
    /\ IsSome(input_dir_guard)
    /\ \A i \in Indices : task[i].st = "done"
    /\ master_m3u8_data /= <<>>
    /\ InOutputDir = {}

\* C22: when the steps of the orchestrator are scheduled fairly and every
\* spawned encoder eventually exits, process_video_internal eventually
\* returns; what it returns is a package exactly when every task succeeded
\* and the master playlist was generated and the working directory removed,
\* and an error otherwise.
C22_ReturnsWhenEncodersExit ==
    /\ <>Returned
    /\ [](Returned => (ReturnedOk <=> AllSucceeded))

\* C22 witness: a run of two profiles whose encoders have both exited has
\* returned a package
C22_Witness ==
    /\ ReturnedOk
    /\ N = 2
    /\ \A i \in Indices : proc[i].st = "exit_ok" /\ task[i].st = "done"


\* C23: no limit on the fan-out: a task is never left unstarted while an
\* encoder of the run has been spawned, and in a run whose profiles all have
\* valid settings, with the encoder installed, the first poll of the join
\* spawns the encoders of all N profiles before any of them has exited.
C23_NoConcurrencyLimit ==
    /\ \A i \in Indices :
            (task[i].st = "created" /\ pc /= "returned") =>
                \A j \in Indices : proc[j].st = "none" /\ spawns[j] = 0
    /\ ( /\ pc = "join"
         /\ ffmpeg_installed
         /\ \A i \in Indices : ~InvalidSetting(output_profiles[i + 1])
         /\ \E i \in Indices : task[i].st /= "created" ) =>
            \A i \in Indices : spawns[i] = 1

\* C23 witness: the encoders of both profiles of a run are running at once
C23_Witness ==
    /\ N = 2
    /\ pc = "join"
    /\ \A i \in Indices : proc[i].st = "running" /\ task[i].st = "awaiting"


\* the paths the encoder spawned for stream index i is told to write: its
\* playlist and the segments of its pattern
WritePaths(i) ==
    {proc[i].command[Len(proc[i].command)]}
        \cup {Replace(ArgAfter(proc[i].command, Str("-hls_segment_filename")),
                      "%03d", Pad3(k)) : k \in 0..MaxSeg}

\* C24: the encoder of the task at position i is given stream index i: its
\* playlist is playlist_i.m3u8 and its segments are data_i_<seq>.ts in the
\* working directory; the paths of two tasks have nothing in common, and
\* none of them is master.m3u8.
C24_TasksWriteDisjointPaths ==
    \A i \in Spawned :
        /\ proc[i].command[Len(proc[i].command)] =
                <<"/tmp/", ".tmpOutput", "/", "playlist_", ToString(i), ".m3u8">>
        /\ ArgAfter(proc[i].command, Str("-hls_segment_filename")) =
                <<"/tmp/", ".tmpOutput", "/", "data_", ToString(i), "_", "%03d", ".ts">>
        /\ MasterPath \notin WritePaths(i)
        /\ \A j \in Spawned : j /= i => WritePaths(i) \cap WritePaths(j) = {}

\* C24 witness: the encoders of two tasks have both written a playlist and
\* a segment into the working directory
C24_Witness ==
    /\ N = 2
    /\ Spawned = {0, 1}
    /\ \A i \in Indices :
            /\ proc[i].command[Len(proc[i].command)] \in DOMAIN disk
            /\ Cardinality(WritePaths(i) \cap DOMAIN disk) >= 2


\* C25: no retries: no step brings the number of encoders spawned for a
\* profile, or the number of times its outputs are read, above one; an
\* encoder that has exited is not started again; and a task that has failed
\* is left as it is by every later step.
C25_NoRetries ==
    [][\A i \in Indices :
          /\ spawns'[i] <= 1
          /\ reads'[i] <= 1
          /\ proc[i].st \in {"exit_ok", "exit_fail"} => proc'[i] = proc[i]
          /\ task[i].st = "failed" =>
                /\ task'[i] = task[i]
                /\ spawns'[i] = spawns[i]
                /\ reads'[i] = reads[i]
                /\ proc'[i] = proc[i]]_vars

\* C25 witness: the task of a profile whose encoder exited with a failure
\* status has failed after one spawn, and the other profile's encoder has
\* exited since the run returned the error
C25_Witness ==
    /\ ReturnedErr
    /\ N = 2
    /\ task[0].st = "failed" /\ proc[0].st = "exit_fail" /\ spawns[0] = 1
    /\ task[1].st = "awaiting" /\ proc[1].st = "exit_ok" /\ spawns[1] = 1


\* C26: the order of the success path: the master playlist is generated
\* only once every task has read its outputs; the working directory is
\* removed only after the master playlist was written and read back, and is
\* still there at every earlier point from the join on; the package is
\* returned only after the removal, when nothing of the working directory
\* exists.
C26_SuccessPathOrder ==
    /\ (pc \in {"master", "remove_output_dir", "return_ok"} \/ ReturnedOk) =>
            \A i \in Indices : task[i].st = "done" /\ reads[i] = 1
    /\ pc \in {"join", "master", "remove_output_dir"} => exists(disk, TempDirPath)
    /\ pc = "master" => master_m3u8_data = <<>>
    /\ pc = "remove_output_dir" =>
            /\ exists(disk, MasterPath)
            /\ master_m3u8_data = disk[MasterPath].data
    /\ (pc \in {"remove_output_dir", "return_ok"} \/ ReturnedOk) =>
            master_m3u8_data /= <<>>
    /\ (pc = "return_ok" \/ ReturnedOk) => InOutputDir = {}
    /\ pc /= "returned" => outcome = None

\* C26 witness: the working directory of a run of two profiles has been
\* removed after the reads and the master playlist, and the package is
\* about to be returned
C26_Witness ==
    /\ pc = "return_ok"
    /\ N = 2
    /\ \A i \in Indices : reads[i] = 1 /\ Unwrap(task[i].res).val.segments /= <<>>
    /\ master_m3u8_data /= <<>>
    /\ InOutputDir = {}


\* C27 as claimed: a setter call that carries an invalid value leaves
\* exactly one more recorded violation, and one that carries none leaves no
\* more, so that k such calls leave exactly k.
C27_OneViolationPerInvalidCall ==
    [][built' = None =>
          Len(builder'.build_errors) =
              Len(builder.build_errors) + (IF violations' /= violations THEN 1 ELSE 0)]_vars

\* C27 amended: setters never fail immediately: every invalid value given to
\* dimensions, crf, preset or enable_hls leaves one recorded violation, in
\* call order (the pattern and the duration of one enable_hls call each
\* leave their own, the pattern's first), and the build() that follows
\* returns one BuildError whose message is the messages of the recorded
\* violations, in that order.
C27_SettersRecordEveryInvalidValue ==
    /\ Len(builder.build_errors) = Len(violations)
    /\ \A k \in 1..Len(violations) :
            ViolationOf(to_string(builder.build_errors[k])) = violations[k]
    /\ (IsSome(built) /\ builder.build_errors /= <<>> /\ ~Unwrap(built).ok) =>
            /\ Unwrap(built).err.variant = "BuildError"
            /\ Unwrap(built).err.msg =
                    <<"Command configuration failed: [">>
                    \o Join([k \in 1..Len(builder.build_errors) |->
                                to_string(builder.build_errors[k])], "; ")
                    \o <<"]">>

\* C27 witness: one call of enable_hls with a pattern without a format
\* specifier and a duration of zero has left two violations, and build()
\* has returned the error listing both
C27_Witness ==
    /\ supplied = {"enable_hls"}
    /\ violations = <<"pattern", "duration">>
    /\ IsSome(built) /\ ~Unwrap(built).ok
    /\ Unwrap(built).err.variant = "BuildError"


\* whether a token sequence contains a format specifier
HasFormatSpecifier(s) == \E k \in 1..Len(s) : s[k] \in {"%03d", "%d"}

\* the conditions on the values given to the setters other than the segment
\* pattern's
ValidButPattern ==
    /\ builder.command.width > 0
    /\ builder.command.height > 0
    /\ builder.command.crf >= 0 /\ builder.command.crf <= 51
    /\ builder.command.preset \in {Str(x) : x \in valid_presets}
    /\ Unwrap(builder.command.hls_config).hls_time > 0
    /\ builder.command.input_path /= <<>>
    /\ builder.command.output_path /= <<>>

\* whether build() has been called after each setter was called once
BuiltOnce == IsSome(built) /\ supplied = Setters

\* C28: after input, output, dimensions, crf, preset and enable_hls have
\* each been called once on a fresh builder, the first build() succeeds
\* exactly when width > 0, height > 0, 0 <= crf <= 51, the preset is one of
\* the builder's fixed set, the segment pattern is non-empty and contains a
\* format specifier, the segment duration is > 0, and the input and output
\* paths are non-empty.
C28_FirstBuildSucceedsIffValid ==
    BuiltOnce =>
        (Unwrap(built).ok <=>
            /\ ValidButPattern
            /\ Unwrap(builder.command.hls_config).segment_filename_pattern /= <<>>
            /\ HasFormatSpecifier(Unwrap(builder.command.hls_config).segment_filename_pattern))

\* C28 for the patterns that contain no '%' outside a format specifier: what
\* the first build() does is what C28 says, and for a pattern that contains
\* a '%' that is no format specifier it succeeds exactly when the other
\* conditions hold.
C28_FirstBuildSucceedsIffAccepted ==
    BuiltOnce =>
        (Unwrap(built).ok <=>
            /\ ValidButPattern
            /\ Unwrap(builder.command.hls_config).segment_filename_pattern /= <<>>
            /\ ContainsPercent(Unwrap(builder.command.hls_config).segment_filename_pattern))

\* C28 witness: the first build() succeeded for a segment pattern whose only
\* '%' is not a format specifier
C28_Witness ==
    /\ BuiltOnce
    /\ Unwrap(built).ok
    /\ Unwrap(builder.command.hls_config).segment_filename_pattern =
            <<"/tmp/", ".tmpOutput", "/", "data_", "%", ".ts">>


\* the outcomes of the five causes of a rejected path, in the order of the
\* checks: the variant and its message
EmptyPathOutcome == <<"EmptyVideoInput", <<>> >>
FileNotFoundOutcome == <<"FileNotFound", <<>> >>
NotAFileOutcome == <<"InvalidVideoInput", <<"The given video is not a file">> >>
UnsupportedExtensionOutcome ==
    <<"InvalidVideoInput", <<"The given video hasn't a valid extension">> >>
UnrecognizedFormatOutcome == <<"InvalidFormat", <<>> >>

\* the outcome of the earliest check a path fails, if it fails one
FirstFailingCheck(path) ==
    IF path = <<>> THEN Some(EmptyPathOutcome)
    ELSE IF path \notin DOMAIN ValidateDisk THEN Some(FileNotFoundOutcome)
    ELSE IF ~ValidateDisk[path].is_file THEN Some(NotAFileOutcome)
    ELSE IF IsNone(ContainerOfPath(path)) THEN Some(UnsupportedExtensionOutcome)
    ELSE IF ~ContainerSignature(ValidateDisk[path].data, Unwrap(ContainerOfPath(path)))
    THEN Some(UnrecognizedFormatOutcome)
    ELSE None

C30_MissingPlaylistFailsMissingSegmentDoesNot ==
    [][\A i \in Indices :
          (task[i].st = "awaiting" /\ task'[i].st /= "awaiting"
                /\ proc[i].st = "exit_ok") =>
             IF <<"/tmp/", ".tmpOutput", "/", "playlist_", ToString(i), ".m3u8">>
                    \notin DOMAIN disk
             THEN /\ task'[i].st = "failed"
                  /\ Unwrap(task'[i].res).err.kind = "IO"
                  /\ pc' = "returned"
                  /\ outcome' = Some(Err(Unwrap(task'[i].res).err))
             ELSE /\ task'[i].st = "done"
                  /\ (Unwrap(task'[i].res).val.segments = <<>>) <=>
                        (<<"/tmp/", ".tmpOutput", "/", "data_", ToString(i), "_", "000", ".ts">>
                            \notin DOMAIN disk)]_vars

\* C30 witness: of two encoders that exited with status zero, one wrote a
\* playlist and no segment and its task succeeded with an empty segment
\* list, the other wrote no playlist and its task failed the run with an IO
\* error
C30_Witness ==
    /\ ReturnedErr
    /\ Unwrap(outcome).err.kind = "IO"
    /\ N = 2
    /\ proc[0].st = "exit_ok" /\ task[0].st = "done"
    /\ Unwrap(task[0].res).val.segments = <<>>
    /\ proc[1].st = "exit_ok" /\ task[1].st = "failed"


\* C31: in the variant result read for stream index i, the segment at list
\* position k (from 0) is named data_i_<k in three digits>.ts and holds the
\* bytes of the file with sequence number k, so the sequence numbers of the
\* list are 0, 1, 2, ... without gap or repetition.
C31_SegmentsNamedAndFilledBySequence ==
    (IsSome(reader_result) /\ Unwrap(reader_result).ok) =>
        LET segments == Unwrap(reader_result).val.segments
            i == reader_args.stream_index
        IN  \A k \in 0..(Len(segments) - 1) :
                /\ segments[k + 1].segment_name =
                        <<"data_", ToString(i), "_", Pad3(k), ".ts">>
                /\ segments[k + 1].segment_data =
                        disk[<<"/tmp/", ".tmpOutput", "/", "data_", ToString(i), "_",
                               Pad3(k), ".ts">>].data
                /\ \A m \in 0..(Len(segments) - 1) :
                        m /= k => segments[m + 1].segment_name
                                    /= segments[k + 1].segment_name

\* C31 witness: the three segments of stream index 1 were read
C31_Witness ==
    /\ IsSome(reader_result)
    /\ Unwrap(reader_result).ok
    /\ reader_args.stream_index = 1
    /\ reader_args.segs = {0, 1, 2}
    /\ Len(Unwrap(reader_result).val.segments) = 3


\* C32: build() is idempotent: a build() that follows a build() with no
\* setter call in between returns what the first returned, also when HLS is
\* enabled and the output path has an extension.
C32_BuildIdempotent ==
    [][(IsSome(built) /\ IsSome(built')) => built' = built]_vars

\* C32 but for the build() that succeeded with HLS enabled and an output
\* path with an extension: a build() that follows a build() returns what
\* the first returned, or the first returned an argument vector for such a
\* builder and the second returns the BuildError of the violation the first
\* recorded.
C32_BuildIdempotentButForExtension ==
    [][(IsSome(built) /\ IsSome(built')) =>
          \/ built' = built
          \/ /\ Unwrap(built).ok
             /\ IsSome(builder.command.hls_config)
             /\ IsSome(extension(builder.command.output_path))
             /\ ~Unwrap(built').ok
             /\ ListedViolations(Unwrap(built').err) = <<"output_extension">>]_vars

\* C32 witness: after setters that recorded no violation, a first build()
\* succeeded and recorded the output-extension violation, and the second
\* build() failed
C32_Witness ==
    /\ BuildFailed
    /\ violations = <<"output_extension">>
    /\ Unwrap(built).err.variant = "BuildError"
    /\ builder.command.output_path = <<"/tmp/", ".tmpOutput", "/", "playlist_", "0", ".m3u8">>


\* C33: the violation list is append-only: every step leaves the recorded
\* violations as a prefix of the list, and a build() of a builder with a
\* recorded violation fails, whatever values were set after the violation
\* was recorded.
C33_ViolationsAppendOnly ==
    [][/\ IsPrefix(builder.build_errors, builder'.build_errors)
       /\ IsPrefix(violations, violations')
       /\ (IsSome(built') /\ builder.build_errors /= <<>>) => ~Unwrap(built').ok]_vars

\* C33 witness: crf was called with an invalid value and again with a valid
\* one, every required field was supplied, and build() failed on the
\* recorded violation
C33_Witness ==
    /\ BuildFailed
    /\ violations = <<"crf">>
    /\ builder.command.crf = 23
    /\ MissingRequired = {}
    /\ Unwrap(built).err.variant = "BuildError"


\* whether the command build of the task of stream index i failed
BuildFailedFor(i) ==
    task[i].st = "failed" /\ Unwrap(task[i].res).err.kind = "FFMPEGBUILDER"

\* whether a profile has positive dimensions and a quality factor in [0,51]
ValidButPreset(profile) ==
    /\ profile.resolution[1] > 0
    /\ profile.resolution[2] > 0
    /\ profile.constant_rate_factor >= 0
    /\ profile.constant_rate_factor <= 51

\* C34: the command build of process_profile succeeds for a profile with
\* positive dimensions and a quality factor in [0,51], whatever its preset.
C34_EveryPresetAccepted ==
    \A i \in Indices : ValidButPreset(output_profiles[i + 1]) => ~BuildFailedFor(i)

\* C34 but for Faster and VeryFast: for a profile with positive dimensions
\* and a quality factor in [0,51], the command build of process_profile
\* fails exactly when the preset is Faster or VeryFast, for each of the nine
\* presets and in every run.
C34_EveryPresetButTwoAccepted ==
    /\ \A p \in DOMAIN PresetValue :
            ProfileCommand(VideoPath, HlsVideoProcessingSettings(<<1280, 720>>, 23, p),
                           TempDirPath, 0, None).ok
                <=> p \notin {"Faster", "VeryFast"}
    /\ \A i \in Indices :
            (ValidButPreset(output_profiles[i + 1]) /\ task[i].st /= "created") =>
                (BuildFailedFor(i) <=>
                    output_profiles[i + 1].preset \in {"Faster", "VeryFast"})

\* C34 witness: the task of a profile of 854x480 with quality factor 28 and
\* the preset VeryFast failed in the command build, and the run returned
\* its error
C34_Witness ==
    /\ ReturnedErr
    /\ \E i \in Indices :
            /\ output_profiles[i + 1] =
                    HlsVideoProcessingSettings(<<854, 480>>, 28, "VeryFast")
            /\ BuildFailedFor(i)
            /\ spawns[i] = 0


\* whether the working directory and the input file of the run exist
RunFilesExist ==
    /\ exists(disk, TempDirPath)
    /\ IsSome(input_dir_guard)
    /\ exists(disk, InputPath(Unwrap(input_dir_guard)))

\* C35: in every state in which an encoder subprocess of the run is
\* running, the run's working directory and its input file exist.
C35_FilesOutliveEncoders ==
    (\E i \in Indices : Running(i)) => RunFilesExist

\* C35 for the states before the return: while process_video_internal has
\* not returned, the working directory and the input file exist in every
\* state in which an encoder is running; once it has returned with an
\* encoder running, it has returned an error, the working directory is
\* gone, and so is the temporary input file of an in-memory source.
C35_FilesOutliveEncodersUntilReturn ==
    (\E i \in Indices : Running(i)) =>
        IF pc /= "returned"
        THEN RunFilesExist
        ELSE /\ ReturnedErr
             /\ ~exists(disk, TempDirPath)
             /\ video_input.type = "InMemoryFile" =>
                    ~exists(disk, InputPath(Unwrap(input_dir_guard)))

\* C35 witness: the run of an in-memory source has returned the error of
\* one profile while the encoder of the other is running, and the working
\* directory and the temporary input file are gone
C35_Witness ==
    /\ ReturnedErr
    /\ N = 2
    /\ video_input.type = "InMemoryFile"
    /\ task[0].st = "failed" /\ proc[0].st = "exit_fail"
    /\ Running(1)
    /\ ~exists(disk, TempDirPath)
    /\ ~exists(disk, InputPath(Unwrap(input_dir_guard)))


\* the segment files in the working directory
SegmentFilesOnDisk ==
    {q \in DOMAIN disk : IsPrefix(TempDirPath, q) /\ q /= TempDirPath
                            /\ q /= reader_args.playlist_filename}

\* C36: segment discovery terminates for every accepted pattern and every
\* finite set of files.  The files do not change during the loop and the
\* test of an iteration depends on the index alone, so the loop stops
\* exactly when it never finds more files than the working directory holds:
\* a loop that has found more has found one file again, and finds it
\* forever.
C36_DiscoveryTerminates ==
    IsSome(reader_loop) =>
        Unwrap(reader_loop).segment_index <= Cardinality(SegmentFilesOnDisk)

\* C36 for the patterns that contain %03d, and what happens for the others:
\* with %03d in the pattern the loop never finds more files than there are
\* and returns what read_playlist_and_segments returns; without, every
\* iteration tests the pattern itself as a path, so the loop stops at once
\* with no segment when no file has that name, and never returns when one
\* has.
C36_DiscoveryTerminatesWithPadSpecifier ==
    LET pattern == reader_args.segment_filename
        padded == \E k \in 1..Len(pattern) : pattern[k] = "%03d"
    IN  /\ (padded /\ IsSome(reader_loop)) =>
                Unwrap(reader_loop).segment_index <= Cardinality(SegmentFilesOnDisk)
        /\ (padded /\ IsSome(reader_result)) =>
                reader_result =
                    Some(read_playlist_and_segments(disk, reader_args.playlist_filename,
                            pattern, reader_args.resolution, reader_args.stream_index))
        /\ (~padded /\ IsSome(reader_result) /\ Unwrap(reader_result).ok) =>
                /\ ~exists(disk, pattern)
                /\ Unwrap(reader_result).val.segments = <<>>
        /\ (~padded /\ IsSome(reader_loop) /\ exists(disk, pattern)) =>
                reader_result = None

\* C36 witness: for a pattern with %d, with one file in the working
\* directory, named as the pattern, the loop has found a file three times
\* and has not returned
C36_Witness ==
    /\ reader_args.segment_filename =
            <<"/tmp/", ".tmpOutput", "/", "data_", "0", "_", "%d", ".ts">>
    /\ SegmentFilesOnDisk = {reader_args.segment_filename}
    /\ IsSome(reader_loop)
    /\ Unwrap(reader_loop).segment_index = 3
    /\ Len(Unwrap(reader_loop).segments) = 3
    /\ reader_result = None

(***************************************************************************)
(* ServiceSpec: process_video_profile_with_encryption of the service       *)
(* module, called once with arguments of every kind, up to its first       *)
(* await: the input is written to a temporary file and the command built.  *)
(***************************************************************************)
KeyUrl == <<"https://keys/", "k">>

KeyPaths == { <<"/keys/", "k", ".keyinfo">>, <<"/keys/", "other", ".keyinfo">> }

Ivs == { None, Some(<<"0123456789abcdef">>), Some(<<"fedcba9876543210">>) }

ServiceInputs ==
    { ServiceArgs(Mp4Bytes, profile.resolution, profile.constant_rate_factor,
                  Str(PresetValue[profile.preset]), TempDirPath, stream_index,
                  KeyUrl, key_path, iv) :
        profile \in ProfileChoices, stream_index \in 0..(MaxProfiles - 1),
        key_path \in KeyPaths, iv \in Ivs }

ServiceInit ==
    /\ RunIdle
    /\ disk = SourceDisk
    /\ ReaderIdle
    /\ builder = new
    /\ built = None
    /\ violations = <<>>
    /\ supplied = {}
    /\ service_args \in {Some(a) : a \in ServiceInputs}

\* write_input_to_tempfile, then build_ffmpeg_command
BuildServiceCommand ==
    /\ built = None
    /\ disk' = WriteFile(disk, TempFilePath, Unwrap(service_args).input_bytes)
    /\ built' = Some(ServiceCommand(Unwrap(service_args), TempFilePath))
    /\ UNCHANGED << video_input, output_profiles, encryption, ffmpeg_installed, pc,
                    input_dir_guard, task, proc, completed, spawns, reads,
                    resolution_results, master_m3u8_data, outcome, builder,
                    violations, supplied, service_args, reader_vars >>

ServiceNext == BuildServiceCommand

ServiceSpec == ServiceInit /\ [][ServiceNext]_vars

\* the profile and the encryption settings FfmpegBackend::process_profile
\* takes for the same values
ServiceProfile(a) ==
    CHOOSE profile \in ProfileChoices :
        /\ profile.resolution = a.resolution
        /\ profile.constant_rate_factor = a.crf
        /\ Str(PresetValue[profile.preset]) = a.preset

ServiceEncryption(a) ==
    Some(VideoProcessorEncryptionSettings(a.encryption_key_url,
                                          a.encryption_key_path, a.iv))

BackendCommand(a) ==
    ProfileCommand(TempFilePath, ServiceProfile(a), a.output_dir, a.stream_index,
                   ServiceEncryption(a))

\* the option and its value are two adjacent arguments of the command
HasOption(args, option, value) ==
    \E k \in 1..(Len(args) - 1) : args[k] = option /\ args[k + 1] = value

HasFlag(args, option) == \E k \in 1..Len(args) : args[k] = option

\* C37: the command process_video_profile_with_encryption builds contains
\* -hls_key_info_file with the key path whether or not an IV is given, and
\* equals the command FfmpegBackend::process_profile builds for the same
\* values.
C37_ServiceCommandCarriesKeyInfo ==
    IsSome(built) =>
        LET a == Unwrap(service_args)
            res == Unwrap(built)
        IN  /\ res = BackendCommand(a)
            /\ res.ok => HasOption(res.val, <<"-hls_key_info_file">>,
                                   a.encryption_key_path)

\* C37, as the code has it: the two commands are equal and carry the key
\* path exactly when an IV is given or the build fails; without an IV the
\* service's command has no -hls_key_info_file and still has the key URL as
\* -hls_base_url, while the backend's command has the key path.
C37_ServiceCommandCarriesKeyInfoOnlyWithIv ==
    IsSome(built) =>
        LET a == Unwrap(service_args)
            res == Unwrap(built)
        IN  /\ res.ok <=> BackendCommand(a).ok
            /\ (IsSome(a.iv) \/ ~res.ok) => res = BackendCommand(a)
            /\ (IsSome(a.iv) /\ res.ok) =>
                    HasOption(res.val, <<"-hls_key_info_file">>, a.encryption_key_path)
            /\ (IsNone(a.iv) /\ res.ok) =>
                    /\ ~HasFlag(res.val, <<"-hls_key_info_file">>)
                    /\ HasOption(res.val, <<"-hls_base_url">>, a.encryption_key_url)
                    /\ HasOption(BackendCommand(a).val, <<"-hls_key_info_file">>,
                                 a.encryption_key_path)
                    /\ res /= BackendCommand(a)

\* a command was built for a key path without an IV
C37_Witness ==
    /\ IsSome(built)
    /\ Unwrap(built).ok
    /\ IsNone(Unwrap(service_args).iv)
    /\ exists(disk, TempFilePath)

(***************************************************************************)
(* GStreamerSpec: a GStreamerCommandBuilder driven by any sequence of      *)
(* setter calls and build() calls.  builder is the builder, built the      *)
(* result of the last build() since the last setter call, and violations   *)
(* the invalid values given so far.                                        *)
(***************************************************************************)
GStreamerInit ==
    /\ RunIdle
    /\ disk = SourceDisk
    /\ ReaderIdle
    /\ builder = gst_new
    /\ built = None
    /\ violations = <<>>
    /\ supplied = {}
    /\ service_args = None

\* a setter call: the builder it leaves and the settings it was given invalid
\* values for
GstSetterCall(b, invalid) ==
    /\ Len(violations) + Len(invalid) <= MaxViolations
    /\ builder' = b
    /\ built' = None
    /\ violations' = violations \o invalid
    /\ UNCHANGED << supplied, service_args, run_vars, reader_vars >>

GstInput(path) == GstSetterCall(gst_input(builder, path), <<>>)

GstOutput(path) == GstSetterCall(gst_output(builder, path), <<>>)

GstDimensions(width, height) ==
    GstSetterCall(gst_dimensions(builder, width, height),
                  IF width > 0 /\ height > 0 THEN <<>> ELSE <<"dimensions">>)

GstBitrate(kbps) ==
    GstSetterCall(bitrate(builder, kbps),
                  IF kbps > 0 THEN <<>> ELSE <<"bitrate">>)

GstEnableHls(pattern, encryption_settings) ==
    GstSetterCall(gst_enable_hls(builder, pattern, None,
                                 IF IsSome(encryption_settings) THEN Some(KeyUrl) ELSE None,
                                 encryption_settings, SegmentDuration),
                  IF ContainsPercent(pattern) THEN <<>> ELSE <<"pattern">>)

GstBuild ==
    /\ builder' = gst_build(builder).builder
    /\ built' = Some(gst_build(builder).res)
    /\ UNCHANGED << violations, supplied, service_args, run_vars, reader_vars >>

GStreamerNext ==
    \/ GstInput(VideoPath)
    \/ GstOutput(PlaylistFilename(TempDirPath, 0))
    \/ \E d \in {<<1920, 1080>>, <<0, 720>>} : GstDimensions(d[1], d[2])
    \/ \E kbps \in {1000, 0} : GstBitrate(kbps)
    \/ \E pattern \in {SegmentFilename(TempDirPath, 0), <<"segment", ".ts">>},
          enc \in {None, Some(HlsOutputEncryptionConfig(<<"/keys/", "k", ".keyinfo">>, None))} :
            GstEnableHls(pattern, enc)
    \/ GstBuild

GStreamerSpec == GStreamerInit /\ [][GStreamerNext]_vars

\* every setting build() asks for was given
GstComplete(b) ==
    /\ b.has_input
    /\ b.has_output \/ IsSome(b.command.hls_config)
    /\ b.has_dimensions
    /\ b.has_bitrate

\* C38: once a setter of a GStreamerCommandBuilder has recorded a violation,
\* every later build() returns an error: no build() of a builder that was
\* given an invalid value returns an argument vector.
C38_GStreamerBuildFailsAfterViolation ==
    (violations /= <<>> /\ IsSome(built)) => ~Unwrap(built).ok

\* C38, as the code has it: a build() of a builder whose error list is not
\* empty fails with the first error of the list and takes it out of the
\* list, so a builder with n recorded violations fails n builds; a build()
\* of a builder whose list is empty leaves the builder as it is and succeeds
\* exactly when every required setting was given, whatever was recorded
\* before.
C38_GStreamerBuildFailsOncePerViolation ==
    [][IsSome(built') =>
        LET res == Unwrap(built')
        IN  /\ builder.errors /= <<>> =>
                /\ ~res.ok
                /\ res.err = Head(builder.errors)
                /\ builder'.errors = Tail(builder.errors)
            /\ builder.errors = <<>> =>
                /\ builder' = builder
                /\ res.ok <=> GstComplete(builder)
            /\ Len(builder'.errors) <= Len(violations)]_vars

\* build() returned an argument vector for a builder that was given an
\* invalid value
C38_Witness ==
    /\ violations /= <<>>
    /\ IsSome(built)
    /\ Unwrap(built).ok
    /\ builder.errors = <<>>

\* C39: with a valid source and no profiles, process_video_internal spawns
\* no subprocess and returns success with no variant results and a master
\* playlist that is the #EXTM3U line alone; the working directory exists from
\* its creation until it is removed before the return, and nothing but the
\* master playlist is ever written into it.
C39_NoProfilesGiveHeaderOnlyPackage ==
    N = 0 =>
        /\ DOMAIN proc = {} /\ DOMAIN spawns = {}
        /\ \A path \in DOMAIN disk :
                (IsPrefix(TempDirPath, path) /\ path /= TempDirPath) => path = MasterPath
        /\ (Returned /\ IsSome(input_dir_guard)) =>
                /\ Unwrap(outcome) = Ok(HlsVideo(Line(<<"#EXTM3U">>), <<>>))
                /\ ~exists(disk, TempDirPath)
        /\ pc \in {"join", "master", "remove_output_dir"} => exists(disk, TempDirPath)
        /\ pc = "remove_output_dir" =>
                /\ exists(disk, MasterPath)
                /\ disk[MasterPath].data = Line(<<"#EXTM3U">>)
        /\ pc = "return_ok" => ~exists(disk, TempDirPath)

\* a run without profiles returned its package
C39_Witness ==
    /\ N = 0
    /\ ReturnedOk
    /\ Unwrap(outcome).val.resolutions = <<>>
    /\ Unwrap(outcome).val.master_m3u8_data = <<"#EXTM3U", "\n">>

=============================================================================
